---- MODULE Spec2Model ----
(***************************************************************************)
(* Model of spotify_tunegenie_updater: the SQLite cache (database.py,      *)
(* class CacheDatabase) and the run of the updater (spotify_updater.py,    *)
(* class SpotifyUpdater) against the remote playlist service.              *)
(*                                                                         *)
(* Two specifications share the state:                                     *)
(*   SpecStore  the public methods of CacheDatabase called in any order    *)
(*              with any arguments (the contract of the cache store);      *)
(*   Spec       SpotifyUpdater.run(), run after run, with the remote       *)
(*              search, listing, add and delete calls succeeding or        *)
(*              failing nondeterministically.                              *)
(***************************************************************************)
EXTENDS Integers, Sequences, FiniteSets, TLC

(***************************************************************************)
(* Universes and bounds                                                    *)
(***************************************************************************)
NULL == "NULL"

\* tunegenie ids (TuneGenie "sid"), Spotify track URIs, managed playlists
Tids == {"t1", "t2", "t3"}
URIs == {"spotify:track:1", "spotify:track:2"}
DailyId == "daily_pl"
CumId == "cum_pl"
PlaylistIds == {DailyId, CumId}

\* bounds of the model
MaxTime == 1
MaxOps == 2
MaxList == 2

\* CURRENT_TIMESTAMP has a date part and a time-of-day part: the clock ticks
\* 0..MaxTime-1 are one day and tick MaxTime is the next day.
TicksPerDay == MaxTime

(***************************************************************************)
(* Helpers                                                                 *)
(***************************************************************************)
SeqsUpTo(S, n) == UNION {[1..k -> S] : k \in 0..n}

Range(s) == {s[i] : i \in 1..Len(s)}

Min2(a, b) == IF a <= b THEN a ELSE b

\* The orders in which a Python set can be iterated (list(s), for x in s):
\* every sequence without repetition whose elements are those of S.
Enumerations(S) ==
    {s \in [1..Cardinality(S) -> S] : \A i, j \in 1..Cardinality(S) : i # j => s[i] # s[j]}

(***************************************************************************)
(* Timestamps.  CURRENT_TIMESTAMP is the text "YYYY-MM-DD HH:MM:SS"         *)
(* (fmt "sql"); the remote service's added_at is "YYYY-MM-DDTHH:MM:SSZ"    *)
(* (fmt "iso").  SQLite compares them as text, NULL before every text:     *)
(* the date first, then the separator (" " sorts before "T"), then the     *)
(* time of day.                                                            *)
(***************************************************************************)
SqlTs(t) == [fmt |-> "sql", t |-> t]
IsoTs(t) == [fmt |-> "iso", t |-> t]
NullTs == [fmt |-> "null", t |-> 0]
Timestamps == {NullTs} \cup {SqlTs(t) : t \in 0..MaxTime} \cup {IsoTs(t) : t \in 0..MaxTime}

TsDay(ts) == ts.t \div TicksPerDay
TsTod(ts) == ts.t % TicksPerDay
FmtRank(ts) == IF ts.fmt = "sql" THEN 0 ELSE 1

TsLess(a, b) ==
    IF a = NullTs THEN b # NullTs
    ELSE IF b = NullTs THEN FALSE
    ELSE \/ TsDay(a) < TsDay(b)
         \/ TsDay(a) = TsDay(b) /\ FmtRank(a) < FmtRank(b)
         \/ TsDay(a) = TsDay(b) /\ FmtRank(a) = FmtRank(b) /\ TsTod(a) < TsTod(b)

(***************************************************************************)
(* Strings of the source feed.  str.lower() and str.strip() on the few     *)
(* artist and title strings of the model.                                  *)
(***************************************************************************)
Lower(s) ==
    CASE s = "Ab" -> "ab"
      [] s = "Ab " -> "ab "
      [] s = "Song" -> "song"
      [] s = "Tune" -> "tune"
      [] OTHER -> s

Strip(s) ==
    CASE s = "Ab " -> "Ab"
      [] s = "ab " -> "ab"
      [] OTHER -> s

\* f"{artist.lower().strip()}_{title.lower().strip()}": the key is kept as the
\* pair of its two parts.
normalize_search_key(artist, title) == <<Strip(Lower(artist)), Strip(Lower(title))>>

VARIABLES
    tracks,            \* table tracks: tunegenie_id -> row (a function on the ids present)
    playlist_tracks,   \* table playlist_tracks: a set of rows
    playlists,         \* table playlists: id -> row (a function on the ids present)
    now,               \* the clock behind CURRENT_TIMESTAMP
    last,              \* the last call or step made, with its arguments and result
    nops,              \* SpecStore: calls made on the cache store (bounded by MaxOps)
    config,            \* spotify_config: playlist ids and max_cumulative_tracks
    access_token,      \* SpotifyUpdater.access_token
    pc,                \* the step of run() that comes next
    songs,             \* run(): the list fetch_tunegenie_songs returned
    idx,               \* run(): index of the next song of the loop "for song in songs"
    track_uris,        \* run(): list of resolved URIs
    unique_tracks,     \* run(): dict key -> uri of the songs found in this run
    tunegenie_ids,     \* run(): list of the tunegenie ids of the songs found
    remote_daily,      \* the remote daily playlist: a list of [uri, added_at]
    remote_cum,        \* the remote cumulative playlist: a list of [uri, added_at]
    exit_code,         \* exit status of the last run (-1: none yet, or running)
    nruns,             \* runs started (bounded by MaxRuns)
    rlog               \* every call of search_spotify_track so far, in order

dbVars == <<tracks, playlist_tracks, playlists>>
runLocals == <<songs, idx, track_uris, unique_tracks, tunegenie_ids>>
remoteVars == <<remote_daily, remote_cum>>
runVars == <<config, access_token, pc, songs, idx, track_uris, unique_tracks,
             tunegenie_ids, remote_daily, remote_cum, exit_code, nruns, rlog>>
vars == <<tracks, playlist_tracks, playlists, now, last, nops, config, access_token, pc,
          songs, idx, track_uris, unique_tracks, tunegenie_ids, remote_daily, remote_cum,
          exit_code, nruns, rlog>>

(***************************************************************************)
(* CacheDatabase: the tables and the methods, as operators on the tables   *)
(***************************************************************************)
\* The Spotify metadata (artist, title, album) cached with a found track is
\* the metadata of that track: one value per URI.
NoMeta == <<>>
SpotifyMeta(uri) == IF uri = NULL THEN NoMeta ELSE <<"meta", uri>>

TrackRow(artist, title, uri, meta, t) ==
    [tunegenie_artist |-> artist, tunegenie_title |-> title,
     spotify_uri |-> uri, spotify_meta |-> meta,
     search_key |-> normalize_search_key(artist, title),
     created_at |-> SqlTs(t), last_found |-> SqlTs(t)]

PlaylistTrackRow(P, tid, pos, added) ==
    [playlist_id |-> P, tunegenie_id |-> tid, position |-> pos, added_at |-> added]

Rows(pt, P) == {r \in pt : r.playlist_id = P}

\* PRIMARY KEY (playlist_id, tunegenie_id)
HasRow(pt, P, tid) == \E r \in pt : r.playlist_id = P /\ r.tunegenie_id = tid

\* SELECT ... FROM tracks WHERE spotify_uri = ?   (never true for NULL)
TidsOfUri(tr, uri) ==
    IF uri = NULL THEN {} ELSE {t \in DOMAIN tr : tr[t].spotify_uri = uri}

add_or_update_playlist(pls, P, name, type, t) ==
    [x \in DOMAIN pls \cup {P} |->
        IF x = P THEN [name |-> name, type |-> type, last_updated |-> SqlTs(t)]
        ELSE pls[x]]

\* (mutant: the SELECT of get_cached_track_search finds no row)
CachedUri_Forgetful(tr, tid) == NULL

\* get_cached_track_search: the value returned ...
CachedUri(tr, tid) ==
    IF tid \in DOMAIN tr /\ tr[tid].spotify_uri # NULL THEN tr[tid].spotify_uri ELSE NULL

\* ... and the table it leaves: last_found is refreshed when a row was selected
TouchTrack(tr, tid, t) ==
    IF tid \in DOMAIN tr /\ tr[tid].spotify_uri # NULL
    THEN [tr EXCEPT ![tid].last_found = SqlTs(t)]
    ELSE tr

\* (mutant: INSERT OR IGNORE, an existing row is kept)
cache_track_search_KeepsExisting(tr, tid, artist, title, uri, meta, t) ==
    [x \in DOMAIN tr \cup {tid} |->
        IF x \in DOMAIN tr THEN tr[x] ELSE TrackRow(artist, title, uri, meta, t)]

\* cache_track_search: INSERT OR REPLACE of the whole row
cache_track_search(tr, tid, artist, title, uri, meta, t) ==
    [x \in DOMAIN tr \cup {tid} |->
        IF x = tid THEN TrackRow(artist, title, uri, meta, t) ELSE tr[x]]

\* One INSERT OR IGNORE INTO playlist_tracks ... SELECT ?, tunegenie_id, ?[, ?]
\* FROM tracks WHERE spotify_uri = ?
InsertByUri(tr, pt, P, pos, added, uri) ==
    pt \cup {PlaylistTrackRow(P, tid, pos, added) :
                tid \in {x \in TidsOfUri(tr, uri) : ~HasRow(pt, P, x)}}

\* iterations lo..hi of the loop "for position, uri in
\* enumerate(spotify_track_uris)": the first half of them, then the second
\* half on the table the first half left
RECURSIVE UpdateRange(_, _, _, _, _, _, _)
UpdateRange(tr, pt, P, L, lo, hi, t) ==
    IF lo > hi THEN pt
    ELSE IF lo = hi THEN InsertByUri(tr, pt, P, lo - 1, SqlTs(t), L[lo])
    ELSE LET mid == (lo + hi) \div 2
             left == UpdateRange(tr, pt, P, L, lo, mid, t)
         IN IF left = pt THEN UpdateRange(tr, pt, P, L, mid + 1, hi, t)
            ELSE UpdateRange(tr, left, P, L, mid + 1, hi, t)

\* the loop "for position, uri in enumerate(spotify_track_uris)", from index i
UpdateLoop(tr, pt, P, L, i, t) == UpdateRange(tr, pt, P, L, i, Len(L), t)

update_playlist_tracks(tr, pt, P, L, t) ==
    UpdateLoop(tr, pt \ Rows(pt, P), P, L, 1, t)

\* the loop "for position, (uri, added_at) in enumerate(track_data)"
RECURSIVE UpdateTsRange(_, _, _, _, _, _)
UpdateTsRange(tr, pt, P, data, lo, hi) ==
    IF lo > hi THEN pt
    ELSE IF lo = hi THEN InsertByUri(tr, pt, P, lo - 1, data[lo][2], data[lo][1])
    ELSE LET mid == (lo + hi) \div 2
             left == UpdateTsRange(tr, pt, P, data, lo, mid)
         IN IF left = pt THEN UpdateTsRange(tr, pt, P, data, mid + 1, hi)
            ELSE UpdateTsRange(tr, left, P, data, mid + 1, hi)

UpdateTsLoop(tr, pt, P, data, i) == UpdateTsRange(tr, pt, P, data, i, Len(data))

update_playlist_tracks_with_timestamps(tr, pt, P, data) ==
    UpdateTsLoop(tr, pt \ Rows(pt, P), P, data, 1)

\* SELECT COALESCE(MAX(position), -1)
MaxPosition(pt, P) ==
    IF Rows(pt, P) = {} THEN -1
    ELSE CHOOSE m \in {r.position : r \in Rows(pt, P)} :
            \A r \in Rows(pt, P) : r.position <= m

\* (mutant: the table also has UNIQUE (playlist_id, position))
RECURSIVE AppendLoop_UniquePosition(_, _, _, _, _, _)
AppendLoop_UniquePosition(pt, P, ids, i, maxpos, t) ==
    IF i > Len(ids) THEN pt
    ELSE AppendLoop_UniquePosition(
            IF HasRow(pt, P, ids[i]) \/ (\E r \in Rows(pt, P) : r.position = maxpos + i) THEN pt
            ELSE pt \cup {PlaylistTrackRow(P, ids[i], maxpos + i, SqlTs(t))},
            P, ids, i + 1, maxpos, t)

\* the loop "for i, tunegenie_id in enumerate(tunegenie_ids)", from index i
\* (i is 1-based here: position = max_position + (i - 1) + 1)
RECURSIVE AppendLoop(_, _, _, _, _, _)
AppendLoop(pt, P, ids, i, maxpos, t) ==
    IF i > Len(ids) THEN pt
    ELSE AppendLoop(
            IF HasRow(pt, P, ids[i]) THEN pt
            ELSE pt \cup {PlaylistTrackRow(P, ids[i], maxpos + i, SqlTs(t))},
            P, ids, i + 1, maxpos, t)

add_tracks_to_playlist_cache(pt, P, ids, t) ==
    AppendLoop(pt, P, ids, 1, MaxPosition(pt, P), t)

\* rows of the JOIN of playlist_tracks with tracks WHERE spotify_uri IS NOT NULL
JoinedRows(tr, pt, P) ==
    {r \in Rows(pt, P) : r.tunegenie_id \in DOMAIN tr /\ tr[r.tunegenie_id].spotify_uri # NULL}

\* every order ORDER BY pt.position allows for the rows R
RECURSIVE ByPosition(_)
ByPosition(R) ==
    IF R = {} THEN {<<>>}
    ELSE UNION {{<<m>> \o s : s \in ByPosition(R \ {m})} :
                    m \in {x \in R : \A y \in R : x.position <= y.position}}

\* the rows the query of get_playlist_tracks selects, as lists of URIs
PlaylistTrackLists(tr, pt, P) ==
    {[i \in 1..Len(s) |-> tr[s[i].tunegenie_id].spotify_uri] :
        s \in ByPosition(JoinedRows(tr, pt, P))}

\* get_playlist_tracks: a Python set of URIs
get_playlist_tracks(tr, pt, P) ==
    {tr[r.tunegenie_id].spotify_uri : r \in JoinedRows(tr, pt, P)}

get_playlist_track_count(pt, P) == Cardinality(Rows(pt, P))

\* ORDER BY pt.added_at ASC, pt.position ASC
RowLess(a, b) ==
    \/ TsLess(a.added_at, b.added_at)
    \/ a.added_at = b.added_at /\ a.position < b.position

\* the number of rows of R that ORDER BY pt.added_at ASC, pt.position ASC puts
\* before row r
Rank(R, r) == Cardinality({y \in R : RowLess(y, r)})

\* every order of the rows R the ORDER BY allows (rows that tie come in any
\* order): the rows before a rank, in order, then the rows from that rank on
RECURSIVE SortedSeqs(_)
SortedSeqs(R) ==
    LET ranks == {Rank(R, r) : r \in R} \ {0}
        half == Cardinality(R) \div 2
    IN IF ranks = {} THEN Enumerations(R)
       ELSE LET cut == IF \E k \in ranks : k >= half
                       THEN CHOOSE k \in ranks : k >= half /\ \A j \in ranks : j >= half => k <= j
                       ELSE CHOOSE k \in ranks : \A j \in ranks : j <= k
                first == {r \in R : Rank(R, r) < cut}
            IN {a \o b : a \in SortedSeqs(first), b \in SortedSeqs(R \ first)}

\* LIMIT ?  (a negative LIMIT is no limit)
Limit(s, n) == IF n < 0 THEN s ELSE SubSeq(s, 1, Min2(n, Len(s)))

\* get_oldest_tracks_from_playlist: the lists the query can return
get_oldest_tracks_from_playlist(tr, pt, P, count) ==
    {[i \in 1..Len(Limit(s, count)) |-> tr[s[i].tunegenie_id].spotify_uri] :
        s \in SortedSeqs(JoinedRows(tr, pt, P))}

\* (mutant: the DELETE has no "playlist_id = ?")
remove_tracks_from_playlist_cache_AnyPlaylist(tr, pt, P, uris) ==
    {r \in pt : ~(\E i \in 1..Len(uris) : r.tunegenie_id \in TidsOfUri(tr, uris[i]))}

\* remove_tracks_from_playlist_cache: DELETE ... WHERE tunegenie_id IN (SELECT ...)
remove_tracks_from_playlist_cache(tr, pt, P, uris) ==
    {r \in pt : ~(r.playlist_id = P /\
                  \E i \in 1..Len(uris) : r.tunegenie_id \in TidsOfUri(tr, uris[i]))}

get_cache_stats(tr, pt, pls) ==
    [successful_searches |-> Cardinality({x \in DOMAIN tr : tr[x].spotify_uri # NULL}),
     failed_searches |-> Cardinality({x \in DOMAIN tr : tr[x].spotify_uri = NULL}),
     total_searches |-> Cardinality(DOMAIN tr),
     playlist_count |-> Cardinality(DOMAIN pls),
     playlist_track_count |-> Cardinality(pt)]

\* (mutant: the DELETE has no "AND spotify_uri IS NULL")
StaleTids_AnyUri(tr, days, t) ==
    {x \in DOMAIN tr : TsLess(tr[x].last_found, SqlTs(t - days * TicksPerDay))}

\* cleanup_old_data: last_found < datetime('now', '-N days') AND spotify_uri IS NULL
StaleTids(tr, days, t) ==
    {x \in DOMAIN tr : tr[x].spotify_uri = NULL /\
                       TsLess(tr[x].last_found, SqlTs(t - days * TicksPerDay))}

cleanup_old_data(tr, days, t) ==
    [x \in DOMAIN tr \ StaleTids(tr, days, t) |-> tr[x]]

(***************************************************************************)
(* SpecStore: the methods of CacheDatabase called in any order with any    *)
(* arguments.  A behaviour is up to MaxOps calls that prepare the tables,  *)
(* then one call that `last` records (its arguments, the tables before it  *)
(* and the value it returned), after which the behaviour ends.             *)
(***************************************************************************)
NoCall ==
    [op |-> "none", pl |-> NULL, tid |-> NULL, uri |-> NULL,
     uris |-> <<>>, ids |-> <<>>, data |-> <<>>, n |-> 0,
     ret_uri |-> NULL, ret_set |-> {}, ret_list |-> <<>>, ret_n |-> 0,
     outcome |-> "", ok |-> TRUE, sent |-> <<>>,
     pre_tracks |-> <<>>, pre_pt |-> {}, pre_daily |-> <<>>, pre_cum |-> <<>>, at |-> 0,
     run_ok |-> TRUE, start_daily |-> <<>>]

Call(op) == [NoCall EXCEPT !.op = op, !.pre_tracks = tracks, !.pre_pt = playlist_tracks,
                           !.at = now]

Recorded(rec, call) == IF rec THEN call ELSE NoCall

CanCall(rec) == last.op = "none" /\ (rec \/ nops < MaxOps)

Count(rec) == nops' = IF rec THEN nops ELSE nops + 1

\* the (artist, title) pairs the store is called with
SongNames == {<<"Ab", "Song">>, <<"Cd", "Tune">>}

\* the added_at values a remote listing can hold
RemoteStamps == {NullTs, IsoTs(0), IsoTs(MaxTime)}

\* SpecStore leaves the updater alone: no run is started
RunIdle ==
    /\ config = [daily_playlist_id |-> DailyId, cumulative_playlist_id |-> CumId,
                 max_cumulative_tracks |-> 1]
    /\ access_token = NULL
    /\ pc = "idle"
    /\ songs = <<>>
    /\ idx = 1
    /\ track_uris = <<>>
    /\ unique_tracks = <<>>
    /\ tunegenie_ids = <<>>
    /\ remote_daily = <<>>
    /\ remote_cum = <<>>
    /\ exit_code = -1
    /\ nruns = 0
    /\ rlog = <<>>

StoreInit ==
    /\ tracks = <<>>
    /\ playlist_tracks = {}
    /\ playlists = <<>>
    /\ now = 0
    /\ last = NoCall
    /\ nops = 0
    /\ RunIdle

\* time passes between calls
Tick ==
    /\ last.op = "none"
    /\ pc = "idle"
    /\ now < MaxTime
    /\ now' = now + 1
    /\ UNCHANGED <<tracks, playlist_tracks, playlists, last, nops>>
    /\ UNCHANGED runVars

StoreAddOrUpdatePlaylist ==
    \E rec \in BOOLEAN, P \in PlaylistIds :
        /\ CanCall(rec)
        /\ playlists' = add_or_update_playlist(playlists, P,
                            IF P = DailyId THEN "Daily" ELSE "Cumulative",
                            IF P = DailyId THEN "daily" ELSE "cumulative", now)
        /\ last' = Recorded(rec, [Call("add_or_update_playlist") EXCEPT !.pl = P])
        /\ Count(rec)
        /\ UNCHANGED <<tracks, playlist_tracks, now>>
        /\ UNCHANGED runVars

StoreGetCachedTrackSearch ==
    \E rec \in BOOLEAN, tid \in Tids :
        /\ CanCall(rec)
        /\ tracks' = TouchTrack(tracks, tid, now)
        /\ last' = Recorded(rec, [Call("get_cached_track_search") EXCEPT
                                    !.tid = tid, !.ret_uri = CachedUri(tracks, tid)])
        /\ Count(rec)
        /\ UNCHANGED <<playlist_tracks, playlists, now>>
        /\ UNCHANGED runVars

StoreCacheTrackSearch ==
    \E rec \in BOOLEAN, tid \in Tids, nm \in SongNames, uri \in URIs \cup {NULL} :
        /\ CanCall(rec)
        /\ tracks' = cache_track_search(tracks, tid, nm[1], nm[2], uri, SpotifyMeta(uri), now)
        /\ last' = Recorded(rec, [Call("cache_track_search") EXCEPT
                                    !.tid = tid, !.uri = uri, !.data = nm])
        /\ Count(rec)
        /\ UNCHANGED <<playlist_tracks, playlists, now>>
        /\ UNCHANGED runVars

StoreGetPlaylistTracks ==
    \E P \in PlaylistIds :
        /\ CanCall(TRUE)
        /\ last' = [Call("get_playlist_tracks") EXCEPT
                        !.pl = P, !.ret_set = get_playlist_tracks(tracks, playlist_tracks, P)]
        /\ UNCHANGED <<tracks, playlist_tracks, playlists, now, nops>>
        /\ UNCHANGED runVars

StoreUpdatePlaylistTracks ==
    \E rec \in BOOLEAN, P \in PlaylistIds, L \in SeqsUpTo(URIs, MaxList) :
        /\ CanCall(rec)
        /\ playlist_tracks' = update_playlist_tracks(tracks, playlist_tracks, P, L, now)
        /\ last' = Recorded(rec, [Call("update_playlist_tracks") EXCEPT !.pl = P, !.uris = L])
        /\ Count(rec)
        /\ UNCHANGED <<tracks, playlists, now>>
        /\ UNCHANGED runVars

StoreUpdatePlaylistTracksWithTimestamps ==
    \E rec \in BOOLEAN, P \in PlaylistIds, data \in SeqsUpTo(URIs \X RemoteStamps, MaxList) :
        /\ CanCall(rec)
        /\ playlist_tracks' =
              update_playlist_tracks_with_timestamps(tracks, playlist_tracks, P, data)
        /\ last' = Recorded(rec, [Call("update_playlist_tracks_with_timestamps") EXCEPT
                                    !.pl = P, !.data = data])
        /\ Count(rec)
        /\ UNCHANGED <<tracks, playlists, now>>
        /\ UNCHANGED runVars

StoreAddTracksToPlaylistCache ==
    \E rec \in BOOLEAN, P \in PlaylistIds, ids \in SeqsUpTo(Tids, MaxList) :
        /\ CanCall(rec)
        /\ playlist_tracks' = add_tracks_to_playlist_cache(playlist_tracks, P, ids, now)
        /\ last' = Recorded(rec, [Call("add_tracks_to_playlist_cache") EXCEPT
                                    !.pl = P, !.ids = ids])
        /\ Count(rec)
        /\ UNCHANGED <<tracks, playlists, now>>
        /\ UNCHANGED runVars

StoreGetPlaylistTrackCount ==
    \E P \in PlaylistIds :
        /\ CanCall(TRUE)
        /\ last' = [Call("get_playlist_track_count") EXCEPT
                        !.pl = P, !.ret_n = get_playlist_track_count(playlist_tracks, P)]
        /\ UNCHANGED <<tracks, playlist_tracks, playlists, now, nops>>
        /\ UNCHANGED runVars

StoreGetOldestTracks ==
    \E P \in PlaylistIds, n \in 0..(MaxList + 1) :
        \E res \in get_oldest_tracks_from_playlist(tracks, playlist_tracks, P, n) :
            /\ CanCall(TRUE)
            /\ last' = [Call("get_oldest_tracks_from_playlist") EXCEPT
                            !.pl = P, !.n = n, !.ret_list = res]
            /\ UNCHANGED <<tracks, playlist_tracks, playlists, now, nops>>
            /\ UNCHANGED runVars

StoreRemoveTracks ==
    \E rec \in BOOLEAN, P \in PlaylistIds, uris \in SeqsUpTo(URIs, MaxList) :
        /\ CanCall(rec)
        /\ playlist_tracks' =
              remove_tracks_from_playlist_cache(tracks, playlist_tracks, P, uris)
        /\ last' = Recorded(rec, [Call("remove_tracks_from_playlist_cache") EXCEPT
                                    !.pl = P, !.uris = uris])
        /\ Count(rec)
        /\ UNCHANGED <<tracks, playlists, now>>
        /\ UNCHANGED runVars

StoreCleanupOldData ==
    \E rec \in BOOLEAN, days \in 0..1 :
        /\ CanCall(rec)
        /\ tracks' = cleanup_old_data(tracks, days, now)
        /\ last' = Recorded(rec, [Call("cleanup_old_data") EXCEPT
                        !.n = days, !.ret_n = Cardinality(StaleTids(tracks, days, now))])
        /\ Count(rec)
        /\ UNCHANGED <<playlist_tracks, playlists, now>>
        /\ UNCHANGED runVars

StoreNext ==
    \/ Tick
    \/ StoreAddOrUpdatePlaylist
    \/ StoreGetCachedTrackSearch
    \/ StoreCacheTrackSearch
    \/ StoreGetPlaylistTracks
    \/ StoreUpdatePlaylistTracks
    \/ StoreUpdatePlaylistTracksWithTimestamps
    \/ StoreAddTracksToPlaylistCache
    \/ StoreGetPlaylistTrackCount
    \/ StoreGetOldestTracks
    \/ StoreRemoveTracks
    \/ StoreCleanupOldData

SpecStore == StoreInit /\ [][StoreNext]_vars

(***************************************************************************)
(* The remote playlist service and the source feed                         *)
(***************************************************************************)
MaxRuns == 2
MaxSongs == 2

\* limits written in spotify_updater.py
PageLimit == 50
DeleteBatch == 100
AddBatch == 100
CumulativeBatch == 50
TrimHeadroom == 50

\* the plays the source feed can report: t1 and t2 are two ids whose
\* (artist, title) differ only in case
Events ==
    {[tunegenie_id |-> "t1", artist |-> "Ab", title |-> "Song"],
     [tunegenie_id |-> "t2", artist |-> "ab", title |-> "Song"],
     [tunegenie_id |-> "t3", artist |-> "Cd", title |-> "Tune"]}

\* what the remote search can answer: a first match, no match, or a failure
\* (transport error or non-2xx status: requests.exceptions.RequestException)
SearchResponses ==
    {[kind |-> "found", uri |-> u] : u \in URIs}
        \cup {[kind |-> "notfound", uri |-> NULL], [kind |-> "error", uri |-> NULL]}

Item(uri, added) == [uri |-> uri, added_at |-> added]

\* ceil(Len(list) / size): the number of slices list[i:i+size]
NumBatches(list, size) == (Len(list) + size - 1) \div size

\* the k-th slice list[i:i+size], i = (k-1)*size
\* a slice that runs one item into the next batch
Batch_Overlapping(list, size, k) == SubSeq(list, (k - 1) * size + 1, Min2(k * size + 1, Len(list)))

Batch(list, size, k) == SubSeq(list, (k - 1) * size + 1, Min2(k * size, Len(list)))

\* (mutant: no page carries a next-page signal)
Page_NeverNext(pl, offset) ==
    [items |-> SubSeq(pl, offset + 1, Min2(offset + PageLimit, Len(pl))),
     next |-> FALSE]

\* GET playlists/{id}/tracks?limit=&offset= : one page and whether a next page exists
Page(pl, offset) ==
    [items |-> SubSeq(pl, offset + 1, Min2(offset + PageLimit, Len(pl))),
     next |-> offset + PageLimit < Len(pl)]

\* the loop "while has_more_pages" of sync_playlist_cache and clear_playlist
\* the items of a page that are kept: "for item in data["items"] if item["track"]"
\* (an item whose track is null has uri NULL here)
TrackItems(items) == SelectSeq(items, LAMBDA it : it.uri # NULL)

RECURSIVE CollectPages(_, _)
CollectPages(pl, offset) ==
    TrackItems(Page(pl, offset).items) \o
        (IF Page(pl, offset).next THEN CollectPages(pl, offset + PageLimit) ELSE <<>>)

\* POST playlists/{id}/tracks: the URIs are appended, stamped by the service
RemoteAdd(pl, uris, t) == pl \o [i \in 1..Len(uris) |-> Item(uris[i], IsoTs(t))]

\* DELETE playlists/{id}/tracks: every occurrence of each URI is removed
RemoteDelete(pl, uris) == SelectSeq(pl, LAMBDA it : it.uri \notin Range(uris))

\* delete batches 1..k-1 applied (k = failing batch, or NumBatches + 1)
RECURSIVE DeleteBatches(_, _, _, _)
DeleteBatches(pl, uris, k, upto) ==
    IF k >= upto THEN pl
    ELSE DeleteBatches(RemoteDelete(pl, Batch(uris, DeleteBatch, k)), uris, k + 1, upto)

\* add batches 1..k-1 of the given size applied
RECURSIVE AddBatches(_, _, _, _, _, _)
AddBatches(pl, uris, size, k, upto, t) ==
    IF k >= upto THEN pl
    ELSE AddBatches(RemoteAdd(pl, Batch(uris, size, k), t), uris, size, k + 1, upto, t)

UrisOf(items) == [i \in 1..Len(items) |-> items[i].uri]

(***************************************************************************)
(* SpotifyUpdater: the methods as operators                                *)
(***************************************************************************)
\* key = f"{song['artist'].lower()}_{song['title'].lower()}"  (run, no strip)
RunKey(song) == <<Lower(song.artist), Lower(song.title)>>

\* (mutant: the failed search is cached like a search without a match)
search_spotify_track_CachingErrors(tr, token, song, resp, t) ==
    IF token # NULL /\ CachedUri(tr, song.tunegenie_id) # NULL
    THEN [ret |-> CachedUri(tr, song.tunegenie_id),
          tracks |-> TouchTrack(tr, song.tunegenie_id, t), outcome |-> "hit"]
    ELSE IF resp.kind = "found"
    THEN [ret |-> resp.uri,
          tracks |-> cache_track_search(tr, song.tunegenie_id, song.artist, song.title,
                                        resp.uri, SpotifyMeta(resp.uri), t),
          outcome |-> "found"]
    ELSE [ret |-> NULL,
          tracks |-> cache_track_search(tr, song.tunegenie_id, song.artist, song.title,
                                        NULL, NoMeta, t),
          outcome |-> resp.kind]

\* (mutant: the cache is not consulted, every call searches remotely)
search_spotify_track_AlwaysSearching(tr, token, song, resp, t) ==
    IF token = NULL
    THEN [ret |-> NULL, tracks |-> tr, outcome |-> "notoken"]
    ELSE IF resp.kind = "found"
    THEN [ret |-> resp.uri,
          tracks |-> cache_track_search(tr, song.tunegenie_id, song.artist, song.title,
                                        resp.uri, SpotifyMeta(resp.uri), t),
          outcome |-> "found"]
    ELSE IF resp.kind = "notfound"
    THEN [ret |-> NULL,
          tracks |-> cache_track_search(tr, song.tunegenie_id, song.artist, song.title,
                                        NULL, NoMeta, t),
          outcome |-> "notfound"]
    ELSE [ret |-> NULL, tracks |-> tr, outcome |-> "error"]

\* search_spotify_track(tunegenie_id, artist, title), the remote answering resp
\* if it is asked: the value returned, the tracks table left, and what happened
search_spotify_track(tr, token, song, resp, t) ==
    IF token = NULL
    THEN [ret |-> NULL, tracks |-> tr, outcome |-> "notoken"]
    ELSE IF CachedUri(tr, song.tunegenie_id) # NULL
    THEN [ret |-> CachedUri(tr, song.tunegenie_id),
          tracks |-> TouchTrack(tr, song.tunegenie_id, t), outcome |-> "hit"]
    ELSE IF resp.kind = "found"
    THEN [ret |-> resp.uri,
          tracks |-> cache_track_search(tr, song.tunegenie_id, song.artist, song.title,
                                        resp.uri, SpotifyMeta(resp.uri), t),
          outcome |-> "found"]
    ELSE IF resp.kind = "notfound"
    THEN [ret |-> NULL,
          tracks |-> cache_track_search(tr, song.tunegenie_id, song.artist, song.title,
                                        NULL, NoMeta, t),
          outcome |-> "notfound"]
    ELSE [ret |-> NULL, tracks |-> tr, outcome |-> "error"]

\* clear_playlist: listing fails (listok = FALSE) or delete batch failAt fails
\* (failAt = 0: none fails)
clear_playlist(pl, listok, failAt) ==
    LET all == UrisOf(CollectPages(pl, 0))
        nb == NumBatches(all, DeleteBatch)
    IN IF ~listok THEN [ok |-> FALSE, remote |-> pl]
       ELSE IF all = <<>> THEN [ok |-> TRUE, remote |-> pl]
       ELSE IF failAt = 0 THEN [ok |-> TRUE, remote |-> DeleteBatches(pl, all, 1, nb + 1)]
       ELSE [ok |-> FALSE, remote |-> DeleteBatches(pl, all, 1, failAt)]

\* add_tracks_to_playlist(track_uris, "daily"): add batch failAt fails (0: none)
add_tracks_to_playlist(pl, uris, failAt, t) ==
    LET nb == NumBatches(uris, AddBatch)
    IN IF uris = <<>> THEN [ok |-> FALSE, remote |-> pl]
       ELSE IF failAt = 0 THEN [ok |-> TRUE, remote |-> AddBatches(pl, uris, AddBatch, 1, nb + 1, t)]
       ELSE [ok |-> FALSE, remote |-> AddBatches(pl, uris, AddBatch, 1, failAt, t)]

\* the longest playlist of the model, and the i-th track URI (spotify:track:1
\* and spotify:track:2 are the URIs a search answers in the runs of Spec)
LongUris == 101
LongUri(i) == "spotify:track:" \o ToString(i)
TrackUris == {LongUri(i) : i \in 1..LongUris}

\* uri.startswith('spotify:track:'): every URI a track search answers is one
IsTrackUri(uri) == uri \in TrackUris

\* the sets longer than this are listed in two orders only
MaxEnum == 3

\* the URIs of S by ascending (or descending) index
ByIndex(S, rev) ==
    LET I == {i \in 1..LongUris : LongUri(i) \in S}
    IN [k \in 1..Cardinality(I) |->
           LongUri(CHOOSE i \in I :
                      Cardinality({j \in I : IF rev THEN j > i ELSE j < i}) = k - 1)]

\* list(updated_tracks): the orders a Python set of URIs is listed in
SetOrders(S) ==
    IF Cardinality(S) <= MaxEnum THEN Enumerations(S)
    ELSE {ByIndex(S, rev) : rev \in BOOLEAN}

ValidUris(batch) == SelectSeq(batch, LAMBDA u : u # NULL /\ IsTrackUri(u))

\* add_tracks_to_cumulative_playlist_batched: the batches in `fails` fail, the
\* others are added; batches without a valid URI are skipped
RECURSIVE CumulativeBatches(_, _, _, _, _)
CumulativeBatches(pl, uris, k, fails, t) ==
    IF k > NumBatches(uris, CumulativeBatch) THEN [remote |-> pl, total_added |-> 0]
    ELSE LET valid == ValidUris(Batch(uris, CumulativeBatch, k))
             sent == valid # <<>> /\ k \notin fails
             rest == CumulativeBatches(IF sent THEN RemoteAdd(pl, valid, t) ELSE pl,
                                       uris, k + 1, fails, t)
         IN [remote |-> rest.remote,
             total_added |-> rest.total_added + (IF sent THEN Len(valid) ELSE 0)]

add_tracks_to_cumulative_playlist_batched(pl, uris, fails, t) ==
    IF uris = <<>> THEN [ok |-> FALSE, remote |-> pl]
    ELSE LET r == CumulativeBatches(pl, uris, 1, fails, t)
         IN [ok |-> r.total_added > 0, remote |-> r.remote]

\* remove_tracks_from_playlist: delete batch failAt fails (0: none)
remove_tracks_from_playlist(pl, uris, failAt) ==
    LET nb == NumBatches(uris, DeleteBatch)
    IN IF uris = <<>> THEN [ok |-> FALSE, remote |-> pl]
       ELSE IF failAt = 0 THEN [ok |-> TRUE, remote |-> DeleteBatches(pl, uris, 1, nb + 1)]
       ELSE [ok |-> FALSE, remote |-> DeleteBatches(pl, uris, 1, failAt)]

\* sync_playlist_cache(playlist_id, name, type): the playlists and
\* playlist_tracks tables it leaves; listok = FALSE when a page request fails
SyncData(pl) ==
    LET items == CollectPages(pl, 0)
    IN [i \in 1..Len(items) |-> <<items[i].uri, items[i].added_at>>]

\* (mutant: only the first item of the listing is stored)
sync_playlist_cache_FirstItemOnly(tr, pt, pls, P, name, type, pl, listok, t) ==
    [playlists |-> add_or_update_playlist(pls, P, name, type, t),
     playlist_tracks |->
        IF listok
        THEN update_playlist_tracks_with_timestamps(tr, pt, P,
                SubSeq(SyncData(pl), 1, Min2(1, Len(pl))))
        ELSE pt]

sync_playlist_cache(tr, pt, pls, P, name, type, pl, listok, t) ==
    [playlists |-> add_or_update_playlist(pls, P, name, type, t),
     playlist_tracks |->
        IF listok THEN update_playlist_tracks_with_timestamps(tr, pt, P, SyncData(pl))
        ELSE pt]

\* new_tracks = [uri for uri in track_uris if uri not in existing_tracks]
NewTracks(uris, existing) == SelectSeq(uris, LAMBDA u : u \notin existing)

(***************************************************************************)
(* Spec: SpotifyUpdater.run(), one process after the other.  Each action   *)
(* is one step of run(); `last` records the step just made.                *)
(***************************************************************************)
\* the configurations: the cumulative playlist is optional
Configs ==
    {[daily_playlist_id |-> DailyId, cumulative_playlist_id |-> CumId,
      max_cumulative_tracks |-> m] : m \in 1..2}
        \cup {[daily_playlist_id |-> DailyId, cumulative_playlist_id |-> NULL,
               max_cumulative_tracks |-> 1]}

\* the remote playlists before the first run
InitialDaily == {<<>>, <<Item("spotify:track:2", IsoTs(0))>>}
InitialCumulative ==
    {<<>>, <<Item("spotify:track:1", IsoTs(0)), Item("spotify:track:2", IsoTs(0))>>}

Init ==
    /\ tracks = <<>>
    /\ playlist_tracks = {}
    /\ playlists = <<>>
    /\ now = 0
    /\ last = NoCall
    /\ nops = 0
    /\ config \in Configs
    /\ access_token = NULL
    /\ pc = "idle"
    /\ songs = <<>>
    /\ idx = 1
    /\ track_uris = <<>>
    /\ unique_tracks = <<>>
    /\ tunegenie_ids = <<>>
    /\ remote_daily \in InitialDaily
    /\ remote_cum \in IF config.cumulative_playlist_id = NULL THEN {<<>>}
                      ELSE InitialCumulative
    /\ exit_code = -1
    /\ nruns = 0
    /\ rlog = <<>>

\* the record of one step of run(): run_ok says that no remote call of the run
\* has failed so far, start_daily is the remote daily playlist the run found
Step(name) ==
    [Call(name) EXCEPT !.pre_daily = remote_daily, !.pre_cum = remote_cum,
                       !.run_ok = last.run_ok, !.start_daily = last.start_daily]

\* sys.exit(code), or the end of run()
Exit(code) == pc' = "idle" /\ exit_code' = code

\* (mutant: run() goes on to initialize_cache when the token refresh failed)
Authenticate_GoesOn ==
    /\ pc = "idle"
    /\ nruns < MaxRuns
    /\ nruns' = nruns + 1
    /\ now' = IF nruns = 0 THEN now ELSE Min2(now + 1, MaxTime)
    /\ songs' = <<>>
    /\ idx' = 1
    /\ track_uris' = <<>>
    /\ unique_tracks' = <<>>
    /\ tunegenie_ids' = <<>>
    /\ \E ok \in BOOLEAN :
        /\ access_token' = IF ok THEN "token" ELSE NULL
        /\ pc' = "init_cache"
        /\ exit_code' = -1
        /\ last' = [Step("refresh_spotify_token") EXCEPT
                        !.ok = ok, !.run_ok = ok, !.start_daily = remote_daily]
    /\ UNCHANGED <<dbVars, nops, config, remoteVars, rlog>>

\* a new process: __init__, then step 1 of run(), refresh_spotify_token.
\* The updater is run once a day: the clock has moved on since the last run.
Authenticate ==
    /\ pc = "idle"
    /\ nruns < MaxRuns
    /\ nruns' = nruns + 1
    /\ now' = IF nruns = 0 THEN now ELSE Min2(now + 1, MaxTime)
    /\ songs' = <<>>
    /\ idx' = 1
    /\ track_uris' = <<>>
    /\ unique_tracks' = <<>>
    /\ tunegenie_ids' = <<>>
    /\ \E ok \in BOOLEAN :
        /\ access_token' = IF ok THEN "token" ELSE NULL
        /\ pc' = IF ok THEN "init_cache" ELSE "idle"
        /\ exit_code' = IF ok THEN -1 ELSE 1
        /\ last' = [Step("refresh_spotify_token") EXCEPT
                        !.ok = ok, !.run_ok = ok, !.start_daily = remote_daily]
    /\ UNCHANGED <<dbVars, nops, config, remoteVars, rlog>>

\* (mutant: the bootstrap syncs a cumulative playlist whether one is configured
\* or not)
InitializeCache_SyncsBoth ==
    /\ pc = "init_cache"
    /\ pc' = "fetch"
    /\ IF get_cache_stats(tracks, playlist_tracks, playlists).playlist_count = 0
       THEN \E okDaily, okCum \in BOOLEAN :
            LET d == sync_playlist_cache(tracks, playlist_tracks, playlists,
                        config.daily_playlist_id, "Daily", "daily", remote_daily, okDaily, now)
                c == sync_playlist_cache(tracks, d.playlist_tracks, d.playlists,
                        CumId, "Cumulative", "cumulative", remote_cum, okCum, now)
            IN /\ playlists' = c.playlists
               /\ playlist_tracks' = c.playlist_tracks
               /\ last' = [Step("initialize_cache") EXCEPT
                              !.outcome = "synced", !.ok = okDaily /\ okCum,
                              !.run_ok = last.run_ok /\ okDaily /\ okCum]
       ELSE /\ UNCHANGED <<playlists, playlist_tracks>>
            /\ last' = [Step("initialize_cache") EXCEPT !.outcome = "skipped"]
    /\ UNCHANGED <<tracks, now, nops, config, access_token, runLocals, remoteVars,
                   exit_code, nruns, rlog>>

\* step 1.5: initialize_cache
InitializeCache ==
    /\ pc = "init_cache"
    /\ pc' = "fetch"
    /\ IF get_cache_stats(tracks, playlist_tracks, playlists).playlist_count = 0
       THEN \E okDaily, okCum \in BOOLEAN :
            LET d == sync_playlist_cache(tracks, playlist_tracks, playlists,
                        config.daily_playlist_id, "Daily", "daily", remote_daily, okDaily, now)
                c == IF config.cumulative_playlist_id = NULL THEN d
                     ELSE sync_playlist_cache(tracks, d.playlist_tracks, d.playlists,
                            config.cumulative_playlist_id, "Cumulative", "cumulative",
                            remote_cum, okCum, now)
            IN /\ playlists' = c.playlists
               /\ playlist_tracks' = c.playlist_tracks
               /\ last' = [Step("initialize_cache") EXCEPT
                              !.outcome = "synced", !.ok = okDaily /\ okCum,
                              !.run_ok = last.run_ok /\ okDaily /\ okCum]
       ELSE /\ UNCHANGED <<playlists, playlist_tracks>>
            /\ last' = [Step("initialize_cache") EXCEPT !.outcome = "skipped"]
    /\ UNCHANGED <<tracks, now, nops, config, access_token, runLocals, remoteVars,
                   exit_code, nruns, rlog>>

\* (mutant: a failed request of the feed ends the run with status 1)
FetchSongs_FailureFatal ==
    /\ pc = "fetch"
    /\ \E ok \in BOOLEAN, fetched \in SeqsUpTo(Events, MaxSongs) :
        /\ ok \/ fetched = <<>>
        /\ songs' = fetched
        /\ last' = [Step("fetch_tunegenie_songs") EXCEPT !.ok = ok, !.n = Len(fetched),
                                                        !.run_ok = last.run_ok /\ ok]
        /\ IF ~ok THEN Exit(1)
           ELSE IF fetched = <<>> THEN Exit(0) ELSE pc' = "resolve" /\ exit_code' = exit_code
    /\ idx' = 1
    /\ UNCHANGED <<dbVars, now, nops, config, access_token, track_uris, unique_tracks,
                   tunegenie_ids, remoteVars, nruns, rlog>>

\* (mutant: run() goes on to the resolve loop with an empty list of songs)
FetchSongs_GoesOn ==
    /\ pc = "fetch"
    /\ \E ok \in BOOLEAN, fetched \in SeqsUpTo(Events, MaxSongs) :
        /\ ok \/ fetched = <<>>
        /\ songs' = fetched
        /\ last' = [Step("fetch_tunegenie_songs") EXCEPT !.ok = ok, !.n = Len(fetched),
                                                        !.run_ok = last.run_ok /\ ok]
        /\ pc' = "resolve"
        /\ exit_code' = exit_code
    /\ idx' = 1
    /\ UNCHANGED <<dbVars, now, nops, config, access_token, track_uris, unique_tracks,
                   tunegenie_ids, remoteVars, nruns, rlog>>

\* step 2: fetch_tunegenie_songs; a failed request gives the empty list
FetchSongs ==
    /\ pc = "fetch"
    /\ \E ok \in BOOLEAN, fetched \in SeqsUpTo(Events, MaxSongs) :
        /\ ok \/ fetched = <<>>
        /\ songs' = fetched
        /\ last' = [Step("fetch_tunegenie_songs") EXCEPT !.ok = ok, !.n = Len(fetched),
                                                        !.run_ok = last.run_ok /\ ok]
        /\ IF fetched = <<>> THEN Exit(0) ELSE pc' = "resolve" /\ exit_code' = exit_code
    /\ idx' = 1
    /\ UNCHANGED <<dbVars, now, nops, config, access_token, track_uris, unique_tracks,
                   tunegenie_ids, remoteVars, nruns, rlog>>

\* step 3: one iteration of "for song in songs"
ResolveSong ==
    /\ pc = "resolve"
    /\ idx <= Len(songs)
    /\ idx' = idx + 1
    /\ LET song == songs[idx]
           key == RunKey(song)
       IN IF key \in DOMAIN unique_tracks
          THEN /\ last' = [Step("resolve") EXCEPT !.tid = song.tunegenie_id,
                                                  !.outcome = "skipped"]
               /\ UNCHANGED <<tracks, track_uris, unique_tracks, tunegenie_ids, rlog>>
          ELSE \E resp \in SearchResponses :
               LET r == search_spotify_track(tracks, access_token, song, resp, now)
               IN /\ tracks' = r.tracks
                  /\ rlog' = Append(rlog, [run |-> nruns, idx |-> idx,
                                           tid |-> song.tunegenie_id, key |-> key,
                                           outcome |-> r.outcome, ret |-> r.ret])
                  /\ last' = [Step("resolve") EXCEPT !.tid = song.tunegenie_id,
                                 !.outcome = r.outcome, !.ret_uri = r.ret,
                                 !.run_ok = last.run_ok /\ r.outcome # "error"]
                  /\ IF r.ret # NULL
                     THEN /\ unique_tracks' = [k \in DOMAIN unique_tracks \cup {key} |->
                                                  IF k = key THEN r.ret ELSE unique_tracks[k]]
                          /\ track_uris' = Append(track_uris, r.ret)
                          /\ tunegenie_ids' = Append(tunegenie_ids, song.tunegenie_id)
                     ELSE UNCHANGED <<track_uris, unique_tracks, tunegenie_ids>>
    /\ UNCHANGED <<playlist_tracks, playlists, now, nops, config, access_token, pc, songs,
                   remoteVars, exit_code, nruns>>

\* (mutant: when no track was found the run fetches the source feed again)
EndResolve_FetchesAgain ==
    /\ pc = "resolve"
    /\ idx > Len(songs)
    /\ last' = [Step("end_resolve") EXCEPT !.n = Len(track_uris)]
    /\ pc' = IF track_uris = <<>> THEN "fetch" ELSE "clear"
    /\ exit_code' = exit_code
    /\ UNCHANGED <<dbVars, now, nops, config, access_token, runLocals, remoteVars, nruns, rlog>>

\* the end of the loop: "if not track_uris: sys.exit(0)"
EndResolve ==
    /\ pc = "resolve"
    /\ idx > Len(songs)
    /\ last' = [Step("end_resolve") EXCEPT !.n = Len(track_uris)]
    /\ IF track_uris = <<>> THEN Exit(0) ELSE pc' = "clear" /\ exit_code' = exit_code
    /\ UNCHANGED <<dbVars, now, nops, config, access_token, runLocals, remoteVars, nruns, rlog>>

\* step 4: clear_playlist on the daily playlist
ClearDaily ==
    /\ pc = "clear"
    /\ \E listok \in BOOLEAN,
          failAt \in 0..NumBatches(UrisOf(remote_daily), DeleteBatch) :
        LET r == clear_playlist(remote_daily, listok, failAt)
        IN /\ remote_daily' = r.remote
           /\ last' = [Step("clear_playlist") EXCEPT !.ok = r.ok,
                                                 !.run_ok = last.run_ok /\ r.ok]
           /\ IF r.ok THEN pc' = "add_daily" /\ exit_code' = exit_code ELSE Exit(1)
    /\ UNCHANGED <<dbVars, now, nops, config, access_token, runLocals, remote_cum, nruns, rlog>>

\* (mutant: the daily cache is updated before the result of the add is known)
AddDaily_CacheFirst ==
    /\ pc = "add_daily"
    /\ \E failAt \in 0..NumBatches(track_uris, AddBatch) :
        LET r == add_tracks_to_playlist(remote_daily, track_uris, failAt, now)
        IN /\ remote_daily' = r.remote
           /\ last' = [Step("add_daily") EXCEPT !.ok = r.ok, !.uris = track_uris,
                                            !.run_ok = last.run_ok /\ r.ok]
           /\ playlist_tracks' = update_playlist_tracks(tracks, playlist_tracks,
                                    config.daily_playlist_id, track_uris, now)
           /\ IF r.ok THEN pc' = "cumulative" /\ exit_code' = exit_code ELSE Exit(1)
    /\ UNCHANGED <<tracks, playlists, now, nops, config, access_token, runLocals, remote_cum,
                   nruns, rlog>>

\* step 5: add_tracks_to_playlist(track_uris, "daily"), then the daily cache update
AddDaily ==
    /\ pc = "add_daily"
    /\ \E failAt \in 0..NumBatches(track_uris, AddBatch) :
        LET r == add_tracks_to_playlist(remote_daily, track_uris, failAt, now)
        IN /\ remote_daily' = r.remote
           /\ last' = [Step("add_daily") EXCEPT !.ok = r.ok, !.uris = track_uris,
                                            !.run_ok = last.run_ok /\ r.ok]
           /\ IF r.ok
              THEN /\ playlist_tracks' = update_playlist_tracks(tracks, playlist_tracks,
                                            config.daily_playlist_id, track_uris, now)
                   /\ pc' = "cumulative"
                   /\ exit_code' = exit_code
              ELSE /\ playlist_tracks' = playlist_tracks
                   /\ Exit(1)
    /\ UNCHANGED <<tracks, playlists, now, nops, config, access_token, runLocals, remote_cum,
                   nruns, rlog>>

\* step 6: add_new_tracks_to_cumulative_playlist up to the cache update
\* (get_existing_tracks_from_cumulative_playlist, the filter, the batched add,
\* update_playlist_tracks with list(updated_tracks))
MergeCumulative ==
    /\ pc = "cumulative"
    /\ IF config.cumulative_playlist_id = NULL
       THEN /\ pc' = "report"
            /\ exit_code' = exit_code
            /\ last' = [Step("merge_cumulative") EXCEPT !.outcome = "unconfigured"]
            /\ UNCHANGED <<playlist_tracks, playlists, remote_cum>>
       ELSE LET P == config.cumulative_playlist_id
                cached == get_playlist_tracks(tracks, playlist_tracks, P)
            IN \E listok \in BOOLEAN :
               LET sy == IF cached # {}
                         THEN [playlists |-> playlists, playlist_tracks |-> playlist_tracks]
                         ELSE sync_playlist_cache(tracks, playlist_tracks, playlists, P,
                                  "Cumulative", "cumulative", remote_cum, listok, now)
                   existing == get_playlist_tracks(tracks, sy.playlist_tracks, P)
                   new == NewTracks(track_uris, existing)
                   how == IF cached # {} THEN "cached"
                          ELSE IF listok THEN "synced" ELSE "sync_failed"
               IN /\ playlists' = sy.playlists
                  /\ IF new = <<>>
                     THEN /\ playlist_tracks' = sy.playlist_tracks
                          /\ remote_cum' = remote_cum
                          /\ pc' = "report"
                          /\ exit_code' = exit_code
                          /\ last' = [Step("merge_cumulative") EXCEPT
                                         !.outcome = how, !.ret_set = existing, !.sent = new,
                                         !.run_ok = last.run_ok /\ how # "sync_failed"]
                     ELSE \E fails \in SUBSET (1..NumBatches(new, CumulativeBatch)) :
                          LET r == add_tracks_to_cumulative_playlist_batched(
                                        remote_cum, new, fails, now)
                          IN /\ remote_cum' = r.remote
                             /\ last' = [Step("merge_cumulative") EXCEPT
                                            !.outcome = how, !.ret_set = existing,
                                            !.sent = new, !.ok = r.ok,
                                            !.n = Cardinality(fails),
                                            !.run_ok = /\ last.run_ok
                                                       /\ how # "sync_failed"
                                                       /\ fails = {}]
                             /\ IF r.ok
                                THEN /\ \E updated \in SetOrders(existing \cup Range(new)) :
                                          playlist_tracks' = update_playlist_tracks(
                                              tracks, sy.playlist_tracks, P, updated, now)
                                     /\ pc' = "trim"
                                     /\ exit_code' = exit_code
                                ELSE /\ playlist_tracks' = sy.playlist_tracks
                                     /\ Exit(1)
    /\ UNCHANGED <<tracks, now, nops, config, access_token, runLocals, remote_daily,
                   nruns, rlog>>

\* trim_cumulative_playlist_if_needed (its result is ignored by the caller)
TrimCumulative ==
    /\ pc = "trim"
    /\ pc' = "report"
    /\ LET P == config.cumulative_playlist_id
           current_count == get_playlist_track_count(playlist_tracks, P)
           tracks_to_remove_count ==
               current_count - config.max_cumulative_tracks + TrimHeadroom
       IN IF current_count <= config.max_cumulative_tracks
          THEN /\ last' = [Step("trim") EXCEPT !.outcome = "within_limit",
                                               !.ret_n = current_count]
               /\ UNCHANGED <<playlist_tracks, remote_cum>>
          ELSE \E oldest \in get_oldest_tracks_from_playlist(
                                tracks, playlist_tracks, P, tracks_to_remove_count) :
               \E failAt \in 0..NumBatches(oldest, DeleteBatch) :
               LET r == remove_tracks_from_playlist(remote_cum, oldest, failAt)
               IN /\ remote_cum' = r.remote
                  /\ playlist_tracks' =
                        IF oldest # <<>> /\ r.ok
                        THEN remove_tracks_from_playlist_cache(tracks, playlist_tracks, P, oldest)
                        ELSE playlist_tracks
                  /\ last' = [Step("trim") EXCEPT
                                 !.outcome = IF oldest = <<>> THEN "nothing_found"
                                             ELSE IF r.ok THEN "trimmed" ELSE "failed",
                                 !.ret_n = current_count, !.n = tracks_to_remove_count,
                                 !.ret_list = oldest,
                                 !.run_ok = last.run_ok /\ (oldest = <<>> \/ r.ok)]
    /\ UNCHANGED <<tracks, playlists, now, nops, config, access_token, runLocals, remote_daily,
                   exit_code, nruns, rlog>>

\* the final statistics; run() returns
Report ==
    /\ pc = "report"
    /\ Exit(0)
    /\ last' = [Step("report") EXCEPT
                   !.ret_n = get_cache_stats(tracks, playlist_tracks, playlists).playlist_track_count]
    /\ UNCHANGED <<dbVars, now, nops, config, access_token, runLocals, remoteVars, nruns, rlog>>

Next ==
    \/ Authenticate
    \/ InitializeCache
    \/ FetchSongs
    \/ ResolveSong
    \/ EndResolve
    \/ ClearDaily
    \/ AddDaily
    \/ MergeCumulative
    \/ TrimCumulative
    \/ Report

Spec == Init /\ [][Next]_vars

(***************************************************************************)
(* Claims about the cache store (checked under SpecStore)                  *)
(***************************************************************************)
\* the URI a membership row joins to (NULL when its track row is missing)
UriOfRow(tr, r) ==
    IF r.tunegenie_id \in DOMAIN tr THEN tr[r.tunegenie_id].spotify_uri ELSE NULL

\* C4 (as claimed): Replace is total.  After update_playlist_tracks(P, L), with
\* every URI of L having a track mapping, get_playlist_tracks(P) is exactly L,
\* in the order of L: whatever order the returned value is read in, it is L.
C4_ReplaceIsTotal ==
    (/\ last.op = "update_playlist_tracks"
     /\ \A i \in 1..Len(last.uris) : TidsOfUri(last.pre_tracks, last.uris[i]) # {})
    => \A s \in Enumerations(get_playlist_tracks(tracks, playlist_tracks, last.pl)) :
            s = last.uris

\* C5 (as claimed): Append is incremental and dedup-safe.  After
\* add_tracks_to_playlist_cache(P, ids) every earlier row of P is unchanged,
\* there is one new row for each id that was not a member, the new rows take
\* the positions right after the previous maximum, contiguously, and nothing
\* is added for an id that was a member already.
C5_NewIds == {last.ids[i] : i \in 1..Len(last.ids)} \
                {r.tunegenie_id : r \in Rows(last.pre_pt, last.pl)}

C5_AppendIncremental ==
    last.op = "add_tracks_to_playlist_cache"
    => LET P == last.pl
           new == playlist_tracks \ last.pre_pt
           maxpos == MaxPosition(last.pre_pt, P)
       IN /\ last.pre_pt \subseteq playlist_tracks
          /\ \A r \in new : r.playlist_id = P /\ r.tunegenie_id \in C5_NewIds
          /\ \A tid \in C5_NewIds :
                Cardinality({r \in new : r.tunegenie_id = tid}) = 1
          /\ {r.position : r \in new} = (maxpos + 1)..(maxpos + Cardinality(C5_NewIds))

\* C6 (as claimed): Eviction picks oldest first.  get_oldest_tracks_from_playlist(P, n)
\* returns the URIs of the min(n, size) rows of P that are smallest by
\* (added_at, position), in ascending order.
C6_OldestFirst ==
    last.op = "get_oldest_tracks_from_playlist"
    => LET R == Rows(playlist_tracks, last.pl)
           k == Min2(last.n, Cardinality(R))
       IN /\ Len(last.ret_list) = k
          /\ \E s \in SortedSeqs(R) :
                \A i \in 1..k : last.ret_list[i] = UriOfRow(tracks, s[i])

(***************************************************************************)
(* Claims about the resolver and the run (checked under Spec)              *)
(***************************************************************************)
\* the calls of search_spotify_track made for tid, in order
CallsOf(tid) == SelectSeq(rlog, LAMBDA e : e.tid = tid)

Searched(e) == e.outcome \in {"found", "notfound", "error"}

\* C1 (as claimed): Idempotent resolution.  When the first two calls of
\* search_spotify_track for an external id meet no remote error, they make
\* exactly one remote search between them (the second is answered from the
\* cache) and the second returns what the first returned, be it a URI or
\* "not found".
C1_IdempotentResolution ==
    \A tid \in Tids :
        LET c == CallsOf(tid)
        IN (Len(c) >= 2 /\ c[1].outcome # "error" /\ c[2].outcome # "error")
           => /\ Searched(c[1]) /\ ~Searched(c[2])
              /\ c[2].ret = c[1].ret

\* C2 (as claimed): Negative caching.  After a resolve of E whose remote search
\* found no match, get_cached_track_search(E) gives a result that differs from
\* the result it gives for an id that was never recorded.
C2_NegativeCaching ==
    \A e \in Tids, f \in Tids :
        (/\ CallsOf(e) # <<>>
         /\ CallsOf(e)[Len(CallsOf(e))].outcome = "notfound"
         /\ f \notin DOMAIN tracks)
        => CachedUri(tracks, e) # CachedUri(tracks, f)

\* C3: Transient remote errors are never cached.  When the remote search of a
\* resolve fails, the resolve returns no URI and leaves the tracks table as it
\* was, and the next resolve of that id searches remotely again.
C3_ErrorsNotCached ==
    /\ (last.op = "resolve" /\ last.outcome = "error")
       => /\ last.ret_uri = NULL
          /\ tracks = last.pre_tracks
          /\ CachedUri(tracks, last.tid) = NULL
    /\ \A tid \in Tids :
          \A i \in 1..(Len(CallsOf(tid)) - 1) :
              CallsOf(tid)[i].outcome = "error" => Searched(CallsOf(tid)[i + 1])

\* C3 witness: a resolve failed remotely and the same id was resolved again
C3_Witness ==
    \E tid \in Tids :
        /\ Len(CallsOf(tid)) >= 2
        /\ CallsOf(tid)[1].outcome = "error"
        /\ Searched(CallsOf(tid)[2])
        /\ last.op = "resolve" /\ last.outcome = "error"

\* C8 (as claimed): Within-run deduplication.  In one run only the first event
\* of each normalized (artist, title) key is passed to the resolver: no call
\* is made for an event whose key an earlier event of the run had, whatever
\* the resolver answered for the first one.
C8_WithinRunDedup ==
    \A i \in 1..Len(rlog) :
        rlog[i].run = nruns
        => \A j \in 1..(rlog[i].idx - 1) : RunKey(songs[j]) # rlog[i].key

\* the URIs of a remote playlist
RemoteUris(pl) == {pl[i].uri : i \in 1..Len(pl)}

MergeOnEmptyCache ==
    /\ last.op = "merge_cumulative"
    /\ last.outcome # "unconfigured"
    /\ Rows(last.pre_pt, CumId) = {}

C10_DailyReplaceResult ==
    (last.op = "add_daily" /\ last.ok)
    => /\ UrisOf(remote_daily) = track_uris
       /\ \A l \in PlaylistTrackLists(tracks, playlist_tracks, DailyId) : l = track_uris

\* ---------------------------------------------------------------------------
\* The trim on a long cumulative playlist (SpecTrim): the state in which
\* add_new_tracks_to_cumulative_playlist calls trim_cumulative_playlist_if_needed,
\* right after update_playlist_tracks rewrote the cached membership.
\* ---------------------------------------------------------------------------

\* the longest cumulative playlist
TrimUris == 52

LongTid(i) == "t" \o ToString(i)
LongSong(i) ==
    [tunegenie_id |-> LongTid(i), artist |-> "ab", title |-> "song" \o ToString(i)]

\* the track cache after n events were resolved, event i to URI i: the rows
\* cache_track_search wrote
ResolvedTracks(n) ==
    [tid \in {LongTid(i) : i \in 1..n} |->
        LET i == CHOOSE j \in 1..n : LongTid(j) = tid
        IN TrackRow(LongSong(i).artist, LongSong(i).title, LongUri(i),
                    SpotifyMeta(LongUri(i)), 0)]

\* ... and after one more event, a later play of song dup, was resolved to the
\* URI of song dup (dup = 0: no such event)
LongTracks(n, dup) ==
    IF dup = 0 THEN ResolvedTracks(n)
    ELSE cache_track_search(ResolvedTracks(n), LongTid(n + 1), LongSong(dup).artist,
                            LongSong(dup).title, LongUri(dup), SpotifyMeta(LongUri(dup)), 0)

\* list(updated_tracks): two of the orders the set can be listed in
LongList(n, rev) == [i \in 1..n |-> LongUri(IF rev THEN n + 1 - i ELSE i)]

TrimSizes == {3, LongUris} \cup ((TrimUris - 2)..TrimUris)

TrimConfigs ==
    {[daily_playlist_id |-> DailyId, cumulative_playlist_id |-> CumId,
      max_cumulative_tracks |-> m] :
        m \in {2, TrimHeadroom, TrimHeadroom + 1, TrimHeadroom + 2}}

TrimInit ==
    \E n \in TrimSizes, rev \in BOOLEAN :
    \E dup \in {0, 1, n} :
        /\ tracks = LongTracks(n, dup)
        /\ playlist_tracks =
              update_playlist_tracks(tracks,
                  update_playlist_tracks(tracks, {}, DailyId, <<LongUri(n)>>, 0),
                  CumId, LongList(n, rev), 0)
        /\ playlists =
              add_or_update_playlist(
                  add_or_update_playlist(<<>>, DailyId, "Daily", "daily", 0),
                  CumId, "Cumulative", "cumulative", 0)
        /\ remote_cum = [i \in 1..n |-> Item(LongUri(i), IsoTs(0))]
        /\ remote_daily = <<Item(LongUri(n), IsoTs(0))>>
        /\ songs = <<LongSong(n)>>
        /\ idx = 2
        /\ track_uris = <<LongUri(n)>>
        /\ unique_tracks = [k \in {RunKey(LongSong(n))} |-> LongUri(n)]
        /\ tunegenie_ids = <<LongTid(n)>>
        /\ rlog = <<[run |-> 1, idx |-> 1, tid |-> LongTid(n),
                     key |-> RunKey(LongSong(n)), outcome |-> "hit", ret |-> LongUri(n)]>>
        /\ config \in TrimConfigs
        /\ now = 0
        /\ last = NoCall
        /\ nops = 0
        /\ access_token = "token"
        /\ pc = "trim"
        /\ exit_code = -1
        /\ nruns = 1

TrimNext ==
    \/ TrimCumulative
    \/ Report

SpecTrim == TrimInit /\ [][TrimNext]_vars

\* the trim found more rows than the limit and every remote delete succeeded
TrimRan ==
    /\ last.op = "trim"
    /\ last.outcome \notin {"within_limit", "failed"}

\* C7 (as claimed): Trim threshold.  When the trim runs with cached track count
\* c > max and every remote delete succeeds, exactly c - max + 50 membership
\* rows are removed from the cache and from the remote playlist and the cached
\* count afterwards is max - 50; when c <= max nothing is removed.  (Stated for
\* limits of at least 50, where max - 50 is a count.)
C7_TrimThreshold ==
    /\ (TrimRan /\ config.max_cumulative_tracks >= TrimHeadroom)
       => LET c == last.ret_n
              k == c - config.max_cumulative_tracks + TrimHeadroom
          IN /\ Cardinality(Rows(last.pre_pt, CumId) \ Rows(playlist_tracks, CumId)) = k
             /\ Len(last.pre_cum) - Len(remote_cum) = k
             /\ get_playlist_track_count(playlist_tracks, CumId)
                    = config.max_cumulative_tracks - TrimHeadroom
    /\ (last.op = "trim" /\ last.outcome = "within_limit")
       => /\ last.ret_n <= config.max_cumulative_tracks
          /\ playlist_tracks = last.pre_pt
          /\ remote_cum = last.pre_cum

\* ---------------------------------------------------------------------------
\* Claims about the failure policy of the run (checked under Spec)
\* ---------------------------------------------------------------------------

\* C11: Daily replace failure is fatal and leaves the cache untouched.  When the
\* clear of the daily playlist or an add batch of step 5 fails, the run ends
\* with exit status 1, the cache is what it was before step 5 (the clear never
\* writes to it), and the cumulative steps are reached only after a clear and
\* an add that succeeded, so none of them runs in a run whose step 5 failed.
C11_DailyFailureFatal ==
    /\ (last.op \in {"clear_playlist", "add_daily"} /\ ~last.ok)
       => /\ pc = "idle"
          /\ exit_code = 1
          /\ playlist_tracks = last.pre_pt
          /\ remote_cum = last.pre_cum
    /\ last.op = "clear_playlist" => playlist_tracks = last.pre_pt
    /\ pc = "add_daily" => (last.op = "clear_playlist" /\ last.ok)
    /\ pc = "cumulative" => (last.op = "add_daily" /\ last.ok)
    /\ pc = "trim" => (last.op = "merge_cumulative" /\ last.ok)
    /\ last.op = "merge_cumulative" => last.pre_daily = remote_daily

\* C11 witness: in a second run, with a cached daily membership from the
\* first, an add batch of step 5 failed
C11_Witness ==
    /\ last.op = "add_daily"
    /\ ~last.ok
    /\ Rows(playlist_tracks, DailyId) # {}
    /\ Rows(playlist_tracks, CumId) # {}

\* C12 (as claimed): Daily replace is all-or-nothing on the remote side.  After
\* any run the remote daily playlist holds either the complete content the run
\* found or the complete list of the run's resolved URIs.
C12_DailyAllOrNothing ==
    (pc = "idle" /\ last.op # "none")
    => \/ UrisOf(remote_daily) = UrisOf(last.start_daily)
       \/ (track_uris # <<>> /\ UrisOf(remote_daily) = track_uris)

\* ---------------------------------------------------------------------------
\* Claims about the cumulative merge (checked under Spec)
\* ---------------------------------------------------------------------------

\* a list without repetition
NoRepeat(l) == \A i, j \in 1..Len(l) : i # j => l[i] # l[j]

MergeRan == last.op = "merge_cumulative" /\ last.outcome # "unconfigured"

\* C13 (as claimed): Cumulative merge appends a set difference.  The URIs sent to
\* the remote cumulative playlist in one run are exactly the resolved URIs that
\* are not in `existing`, each sent at most once.
C13_AppendsSetDifference ==
    MergeRan
    => /\ Range(last.sent) = Range(track_uris) \ last.ret_set
       /\ NoRepeat(last.sent)
       /\ last.n = 0 => UrisOf(remote_cum) = UrisOf(last.pre_cum) \o last.sent

\* C14 (as claimed): The remote cumulative playlist stays deduplicated.  A merge
\* step of a run whose remote calls all succeeded, starting from a remote
\* cumulative playlist without a repeated URI, leaves it without one.
C14_RemoteStaysDeduplicated ==
    (MergeRan /\ last.run_ok /\ NoRepeat(UrisOf(last.pre_cum)))
    => NoRepeat(UrisOf(remote_cum))

\* C15 (as claimed): Cumulative append failures are recoverable-skip.  When one
\* or more append batches of the merge fail, every batch included, the run does
\* not abort: it goes on to the trim or the report and does not exit with a
\* failure status.
C15_AppendFailuresRecoverable ==
    (MergeRan /\ last.sent # <<>> /\ last.n > 0)
    => /\ pc \in {"trim", "report"}
       /\ exit_code # 1

\* ---------------------------------------------------------------------------
\* The merge of a long run (SpecMerge): the state in which run() calls
\* add_new_tracks_to_cumulative_playlist after a day with more new tracks than
\* one append batch holds, then the merge, the trim and the report.
\* ---------------------------------------------------------------------------

\* the numbers of songs the long run resolved
MergeSizes == {TrimUris - 1, TrimUris}

\* the remote playlist of the URIs 1..n, all added at time t
RemoteOf(n, t) == [i \in 1..n |-> Item(LongUri(i), IsoTs(t))]

\* n events resolved to n URIs, all cached on an earlier day; the first e of
\* them are in the cumulative playlist since that day, and in its cache when
\* `cached`
MergeInit ==
    \E n \in MergeSizes, e \in 0..2, cached \in BOOLEAN :
        /\ tracks = ResolvedTracks(n)
        /\ track_uris = [i \in 1..n |-> LongUri(i)]
        /\ songs = [i \in 1..n |-> LongSong(i)]
        /\ idx = n + 1
        /\ tunegenie_ids = [i \in 1..n |-> LongTid(i)]
        /\ unique_tracks =
              [k \in {RunKey(LongSong(i)) : i \in 1..n} |->
                  LongUri(CHOOSE i \in 1..n : RunKey(LongSong(i)) = k)]
        /\ rlog = [i \in 1..n |->
                      [run |-> 1, idx |-> i, tid |-> LongTid(i), key |-> RunKey(LongSong(i)),
                       outcome |-> "hit", ret |-> LongUri(i)]]
        /\ remote_daily = RemoteOf(n, MaxTime)
        /\ remote_cum = RemoteOf(e, 0)
        /\ playlist_tracks =
              update_playlist_tracks(tracks,
                  IF cached
                  THEN update_playlist_tracks_with_timestamps(tracks, {}, CumId,
                           SyncData(remote_cum))
                  ELSE {},
                  DailyId, track_uris, MaxTime)
        /\ playlists =
              add_or_update_playlist(
                  add_or_update_playlist(<<>>, DailyId, "Daily", "daily", 0),
                  CumId, "Cumulative", "cumulative", 0)
        /\ config \in TrimConfigs
        /\ now = MaxTime
        /\ last = [NoCall EXCEPT !.op = "add_daily", !.uris = track_uris,
                                 !.start_daily = remote_daily]
        /\ nops = 0
        /\ access_token = "token"
        /\ pc = "cumulative"
        /\ exit_code = -1
        /\ nruns = 1

MergeNext ==
    \/ MergeCumulative
    \/ TrimCumulative
    \/ Report

SpecMerge == MergeInit /\ [][MergeNext]_vars

\* the URIs the merge step appended to the remote cumulative playlist
Appended == SubSeq(UrisOf(remote_cum), Len(last.pre_cum) + 1, Len(remote_cum))

\* C16 (as claimed): The cumulative cache records only what was really appended.
\* After the merge step, a URI of `new` that was not appended (its batch failed)
\* is not a member of the cached cumulative membership.
C16_CacheRecordsAppended ==
    MergeRan
    => \A u \in Range(last.sent) \ Range(Appended) :
          u \notin get_playlist_tracks(tracks, playlist_tracks, CumId)

\* C17 (as claimed): Cumulative cache update is incremental.  When the merge
\* step updates the cache after successful appends, every membership row the
\* cumulative playlist had before the merge keeps its position and added_at,
\* and the rows added are rows of the newly appended tracks, after the
\* previous maximum position.
C17_CacheUpdateIncremental ==
    (MergeRan /\ last.sent # <<>> /\ last.ok)
    => /\ Rows(last.pre_pt, CumId) \subseteq Rows(playlist_tracks, CumId)
       /\ \A r \in Rows(playlist_tracks, CumId) \ Rows(last.pre_pt, CumId) :
             /\ UriOfRow(tracks, r) \in Range(last.sent)
             /\ r.position > MaxPosition(last.pre_pt, CumId)

\* the items of the remote cumulative playlist the trim removed
TrimRemoved == {last.pre_cum[i] : i \in 1..Len(last.pre_cum)} \ Range(remote_cum)

\* C18 (as claimed): Trim evicts the oldest-added tracks.  Whenever a trim
\* removes tracks from the cumulative playlist (in a run without a failed
\* remote call), no track that remains was added before a track that was removed.
C18_TrimEvictsOldest ==
    (last.op = "trim" /\ last.outcome = "trimmed" /\ last.run_ok)
    => \A x \in TrimRemoved : \A y \in Range(remote_cum) :
          ~TsLess(y.added_at, x.added_at)

\* the URIs of the cached cumulative membership
CachedCumulative(pt) == get_playlist_tracks(tracks, pt, CumId)

\* C19 (as claimed): Trim ordering.  The cached cumulative membership is reduced
\* by a trim only after every remote delete batch of the trim succeeded; when a
\* delete batch fails the cache is unchanged; and after a trim, successful or
\* failed, the cached and the remote cumulative playlist hold the same set of
\* URIs whenever they did before the trim.
C19_TrimOrdering ==
    last.op = "trim"
    => /\ last.outcome = "failed" => playlist_tracks = last.pre_pt
       /\ playlist_tracks # last.pre_pt => last.outcome = "trimmed"
       /\ CachedCumulative(last.pre_pt) = RemoteUris(last.pre_cum)
          => CachedCumulative(playlist_tracks) = RemoteUris(remote_cum)

\* C20 (as claimed): The cumulative playlist is size-bounded.  At the end of
\* every run that reached the merge step with a cumulative playlist configured
\* and in which every remote call succeeded, the cached track count of the
\* cumulative playlist is at most the configured maximum, also when no new
\* track had to be appended.
C20_CumulativeSizeBounded ==
    (last.op = "report" /\ config.cumulative_playlist_id # NULL /\ last.run_ok)
    => get_playlist_track_count(playlist_tracks, config.cumulative_playlist_id)
          <= config.max_cumulative_tracks

\* C21: Authentication failure is fatal.  A run whose token refresh fails ends
\* at once with exit status 1: it writes nothing to the cache, fetches no
\* source events and reads or writes no remote playlist; every later step of
\* run() is made with a token.
C21_AuthFailureFatal ==
    /\ [](pc # "idle" => access_token # NULL)
    /\ [][(pc = "idle" /\ access_token' = NULL)
            => /\ pc' = "idle"
               /\ exit_code' = 1
               /\ songs' = <<>>
               /\ UNCHANGED <<dbVars, remoteVars, rlog>>]_vars

\* the second run fails to authenticate, with rows in the cache
C21_Witness ==
    /\ last.op = "refresh_spotify_token"
    /\ ~last.ok
    /\ nruns = 2
    /\ playlist_tracks # {}
    /\ exit_code = 1

\* the managed playlists the configuration names, and their remote contents
ConfiguredPlaylists == {config.daily_playlist_id, config.cumulative_playlist_id} \ {NULL}
RemotePlaylist(P) == IF P = config.daily_playlist_id THEN remote_daily ELSE remote_cum

\* the cached membership of playlist P as lists of (uri, added_at), in the
\* orders ORDER BY position allows
MembershipLists(tr, pt, P) ==
    {[i \in 1..Len(s) |-> <<UriOfRow(tr, s[i]), s[i].added_at>>] : s \in ByPosition(Rows(pt, P))}

\* C22 (as claimed): Bootstrap.  When a run starts with zero playlist records in
\* the cache, then before the source events are fetched the cached membership
\* of each configured managed playlist is the full remote membership of that
\* playlist, in remote order and with the remote add-timestamps; when the cache
\* holds a playlist record the bootstrap reads no remote playlist and writes
\* nothing to the cache.
C22_Bootstrap ==
    [][pc = "init_cache"
        => IF DOMAIN playlists = {}
           THEN \A P \in ConfiguredPlaylists :
                   MembershipLists(tracks', playlist_tracks', P)
                       = {SyncData(RemotePlaylist(P))}
           ELSE UNCHANGED <<dbVars, remoteVars>>]_vars

\* C23: Empty window.  When the source feed returns no events the run ends
\* with exit status 0; the resolver is not called, no remote playlist is
\* written, and no track mapping and no membership row of the cache changed in
\* the run: not in the steps before the fetch (token refresh, bootstrap) and
\* not in the fetch.
C23_EmptyWindow ==
    /\ [][(pc = "idle" \/ pc = "init_cache")
            => UNCHANGED <<tracks, playlist_tracks, remoteVars, rlog>>]_vars
    /\ [][(pc = "fetch" /\ songs' = <<>>)
            => /\ pc' = "idle"
               /\ exit_code' = 0
               /\ UNCHANGED <<dbVars, remoteVars, rlog>>]_vars

\* the second run finds an empty window, with mappings and memberships cached
C23_Witness ==
    /\ last.op = "fetch_tunegenie_songs"
    /\ last.n = 0
    /\ last.ok
    /\ exit_code = 0
    /\ nruns = 2
    /\ tracks # <<>>
    /\ playlist_tracks # {}

\* C24: No cumulative playlist configured.  With cumulative_playlist_id unset
\* the remote cumulative playlist is never changed, the cache holds playlist
\* records and membership rows of the daily playlist only, no trim is made,
\* the merge step returns at once leaving the cache as it is, and a run whose
\* daily replace succeeded goes through the merge step to its end with exit
\* status 0.
C24_NoCumulativeConfigured ==
    config.cumulative_playlist_id = NULL
    => /\ remote_cum = <<>>
       /\ DOMAIN playlists \subseteq {config.daily_playlist_id}
       /\ \A r \in playlist_tracks : r.playlist_id = config.daily_playlist_id
       /\ pc # "trim"
       /\ last.op # "trim"
       /\ (last.op = "add_daily" /\ last.ok) => pc = "cumulative"
       /\ last.op = "merge_cumulative"
            => /\ last.outcome = "unconfigured"
               /\ pc = "report"
               /\ playlist_tracks = last.pre_pt
               /\ remote_daily = last.pre_daily
       /\ last.op = "report" => (pc = "idle" /\ exit_code = 0)

\* the second run ends without a cumulative playlist, the daily one replaced
C24_Witness ==
    /\ config.cumulative_playlist_id = NULL
    /\ last.op = "report"
    /\ exit_code = 0
    /\ nruns = 2
    /\ Rows(playlist_tracks, DailyId) # {}
    /\ remote_daily # <<>>

\* the mappings cleanup_old_data(days) is to delete when called at last.at:
\* no URI, and last found more than `days` days before the call
Evictable ==
    {x \in DOMAIN last.pre_tracks :
        /\ last.pre_tracks[x].spotify_uri = NULL
        /\ last.pre_tracks[x].last_found.t < last.at - last.n * TicksPerDay}

\* C25: cleanup_old_data(days) deletes exactly the track mappings without a
\* URI whose last_found is older than the threshold, leaves every other
\* mapping as it was, returns the number of mappings deleted, and never
\* deletes a mapping that has a URI, whatever its age.
C25_EvictStale ==
    last.op = "cleanup_old_data"
    => /\ DOMAIN tracks = DOMAIN last.pre_tracks \ Evictable
       /\ \A x \in DOMAIN tracks : tracks[x] = last.pre_tracks[x]
       /\ last.ret_n = Cardinality(Evictable)
       /\ \A x \in DOMAIN last.pre_tracks :
             last.pre_tracks[x].spotify_uri # NULL => x \in DOMAIN tracks

\* a cleanup that deleted an old mapping without a URI and kept an equally old
\* mapping with one
C25_Witness ==
    /\ last.op = "cleanup_old_data"
    /\ last.ret_n = 1
    /\ \E x \in DOMAIN tracks :
          /\ tracks[x].spotify_uri # NULL
          /\ tracks[x].last_found.t < last.at - last.n * TicksPerDay

\* C26 (as claimed): Membership references only resolved tracks.  In every
\* state the calls of the cache store can reach, every membership row names a
\* track mapping that exists and has a URI.
C26_MembershipResolved ==
    \A r \in playlist_tracks :
        /\ r.tunegenie_id \in DOMAIN tracks
        /\ tracks[r.tunegenie_id].spotify_uri # NULL

\* C27 (as claimed): Positions are contiguous.  In every state the calls of the
\* cache store can reach, the positions of the membership rows of each
\* playlist are pairwise distinct and are exactly 0..n-1, n being the number
\* of membership rows of the playlist.
C27_PositionsContiguous ==
    \A P \in PlaylistIds :
        /\ \A a, b \in Rows(playlist_tracks, P) : a # b => a.position # b.position
        /\ {r.position : r \in Rows(playlist_tracks, P)}
              = 0..(Cardinality(Rows(playlist_tracks, P)) - 1)

\* the columns of a track mapping that cache_track_search takes as arguments
MappingFields(row) ==
    <<row.tunegenie_artist, row.tunegenie_title, row.spotify_uri, row.spotify_meta>>

\* the call `last` records, made once more at time t
RecordedAgain(t) ==
    cache_track_search(tracks, last.tid, last.data[1], last.data[2], last.uri,
                       SpotifyMeta(last.uri), t)

\* C28: cache_track_search is an idempotent upsert keyed by tunegenie_id.
\* After a call the table holds one mapping for the id (the table is keyed by
\* the id), with the fields of the call and both timestamps at the time of the
\* call, whether or not the id had a mapping; no other mapping changed; and
\* the same call made once more, at once or later, leaves the same ids and the
\* same mapping fields (the timestamps are those of the latest call).
C28_RecordUpsert ==
    last.op = "cache_track_search"
    => /\ DOMAIN tracks = DOMAIN last.pre_tracks \cup {last.tid}
       /\ \A x \in DOMAIN tracks \ {last.tid} : tracks[x] = last.pre_tracks[x]
       /\ MappingFields(tracks[last.tid])
             = <<last.data[1], last.data[2], last.uri, SpotifyMeta(last.uri)>>
       /\ tracks[last.tid].created_at = SqlTs(last.at)
       /\ tracks[last.tid].last_found = SqlTs(last.at)
       /\ RecordedAgain(last.at) = tracks
       /\ \A t \in last.at..MaxTime :
             /\ DOMAIN RecordedAgain(t) = DOMAIN tracks
             /\ \A x \in DOMAIN tracks :
                   MappingFields(RecordedAgain(t)[x]) = MappingFields(tracks[x])

\* a call for an id that had a mapping with another title and another URI,
\* made later than the first, another mapping being in the table
C28_Witness ==
    /\ last.op = "cache_track_search"
    /\ last.tid \in DOMAIN last.pre_tracks
    /\ last.pre_tracks[last.tid].spotify_uri # last.uri
    /\ last.pre_tracks[last.tid].tunegenie_title # last.data[2]
    /\ last.pre_tracks[last.tid].created_at # SqlTs(last.at)
    /\ DOMAIN tracks # {last.tid}

\* a call of search_spotify_track was just made for an id whose mapping had a URI
PositiveHit ==
    /\ last.op = "resolve"
    /\ last.outcome # "skipped"
    /\ last.tid \in DOMAIN last.pre_tracks
    /\ last.pre_tracks[last.tid].spotify_uri # NULL

\* C29: A positive cache hit is a pure cache read.  A call of
\* search_spotify_track for an id whose mapping has a URI returns that URI
\* without a remote search and changes nothing in the cache but last_found of
\* that mapping; so in a later run no call for an id that an earlier run
\* resolved to a URI searches remotely, and the call returns the same URI.
C29_PositiveHitPureRead ==
    /\ PositiveHit
       => /\ last.outcome = "hit"
          /\ last.ret_uri = last.pre_tracks[last.tid].spotify_uri
          /\ tracks = [last.pre_tracks EXCEPT ![last.tid].last_found = SqlTs(now)]
          /\ playlist_tracks = last.pre_pt
          /\ remote_daily = last.pre_daily
          /\ remote_cum = last.pre_cum
    /\ \A i, j \in 1..Len(rlog) :
          (rlog[i].run < rlog[j].run /\ rlog[i].tid = rlog[j].tid /\ rlog[i].ret # NULL)
          => /\ ~Searched(rlog[j])
             /\ rlog[j].outcome = "hit"
             /\ rlog[j].ret = rlog[i].ret

\* the second run, a day later, resolves from the cache an id the first run
\* found by a remote search
C29_Witness ==
    /\ PositiveHit
    /\ nruns = 2
    /\ last.pre_tracks[last.tid].last_found # SqlTs(now)
    /\ \E i \in 1..Len(rlog) :
          rlog[i].run = 1 /\ rlog[i].tid = last.tid /\ rlog[i].outcome = "found"

\* C30 (as claimed): Every lookup refreshes last_found.  A call of
\* get_cached_track_search for an id that has a mapping, with or without a
\* URI, sets last_found of that mapping to the time of the call and changes
\* nothing else; a call for an id without a mapping changes nothing.
C30_LookupRefreshes ==
    last.op = "get_cached_track_search"
    => /\ tracks = IF last.tid \in DOMAIN last.pre_tracks
                   THEN [last.pre_tracks EXCEPT ![last.tid].last_found = SqlTs(last.at)]
                   ELSE last.pre_tracks
       /\ playlist_tracks = last.pre_pt

\* the steps of run() in the order of its text; "idle" is no run in progress
StepOrder ==
    <<"idle", "init_cache", "fetch", "resolve", "clear", "add_daily", "cumulative",
      "trim", "report">>
StepRank(p) == CHOOSE k \in 1..Len(StepOrder) : StepOrder[k] = p

\* C31: The run is a strictly sequential state machine.  Every step of a run
\* leads to a later step of the order Authenticate, Bootstrap, Fetch, Resolve,
\* Replace daily (clear, add), Merge cumulative, Trim, Report, or ends the run;
\* only the resolve loop stays in its step, one song after the other.  The
\* resolver is called in the resolve step only, the remote daily playlist is
\* changed in the clear and add steps only, the remote cumulative playlist in
\* the merge and trim steps only, and within the merge the trim comes after
\* the append and the cache update.
C31_StrictlySequential ==
    /\ [](pc \in Range(StepOrder))
    /\ [][(pc' = "idle")
            \/ (StepRank(pc') > StepRank(pc))
            \/ (pc = "resolve" /\ pc' = "resolve" /\ idx' = idx + 1)]_vars
    /\ [][rlog' # rlog => pc = "resolve"]_vars
    /\ [][remote_daily' # remote_daily => (pc = "clear" \/ pc = "add_daily")]_vars
    /\ [][remote_cum' # remote_cum => (pc = "cumulative" \/ pc = "trim")]_vars
    /\ [](pc = "trim" => last.op = "merge_cumulative")

\* a second run went through every step to its report, having called the
\* resolver and changed both remote playlists
C31_Witness ==
    /\ last.op = "report"
    /\ nruns = 2
    /\ \E i \in 1..Len(rlog) : rlog[i].run = 2
    /\ remote_daily # last.start_daily
    /\ remote_cum # <<>>
    /\ Rows(playlist_tracks, CumId) # {}

(***************************************************************************)
(* SpecList: the page loop of sync_playlist_cache and clear_playlist, one  *)
(* page request per step, on playlists of up to LongUris items, some with  *)
(* an item whose track is null.  `last` holds the locals of the loop:      *)
(* n = offset, data = the items collected so far, ids = the offsets asked. *)
(***************************************************************************)
ListSizes == {0, 1, PageLimit - 1, PageLimit, PageLimit + 1, 2 * PageLimit, LongUris}

\* a remote playlist of n items, item z (if any) without a track
ListedPlaylist(n, z) ==
    [i \in 1..n |-> Item(IF i = z THEN NULL ELSE LongUri(i), IsoTs(0))]

ListInit ==
    \E n \in ListSizes, z \in {0, 1, PageLimit + 1}, op \in {"sync_playlist_cache", "clear_playlist"} :
        /\ tracks = ResolvedTracks(LongUris)
        /\ playlist_tracks = update_playlist_tracks(tracks, {}, DailyId, <<LongUri(1)>>, 0)
        /\ playlists = add_or_update_playlist(<<>>, DailyId, "Daily", "daily", 0)
        /\ remote_daily = ListedPlaylist(n, z)
        /\ remote_cum = <<>>
        /\ songs = <<>>
        /\ idx = 1
        /\ track_uris = <<>>
        /\ unique_tracks = <<>>
        /\ tunegenie_ids = <<>>
        /\ rlog = <<>>
        /\ config = [daily_playlist_id |-> DailyId, cumulative_playlist_id |-> NULL,
                     max_cumulative_tracks |-> 1]
        /\ now = MaxTime
        /\ last = [NoCall EXCEPT !.op = op, !.pl = DailyId, !.pre_daily = remote_daily,
                                  !.pre_pt = playlist_tracks, !.start_daily = remote_daily]
        /\ nops = 0
        /\ access_token = "token"
        /\ pc = "list_page"
        /\ exit_code = -1
        /\ nruns = 1

\* one iteration of "while has_more_pages": the request at the current offset
\* fails (the except branch is taken) or answers with a page; after the last
\* page sync_playlist_cache writes the membership
ListPage ==
    /\ pc = "list_page"
    /\ \E ok \in BOOLEAN :
        LET page == Page(remote_daily, last.n)
            all == last.data \o TrackItems(page.items)
            done == ok /\ ~page.next
        IN /\ last' = [last EXCEPT
                          !.ids = Append(last.ids, last.n),
                          !.ok = ok,
                          !.data = IF ok THEN all ELSE last.data,
                          !.n = IF ok THEN last.n + PageLimit ELSE last.n]
           /\ pc' = IF ~ok THEN "list_failed"
                    ELSE IF page.next THEN "list_page" ELSE "list_done"
           /\ playlist_tracks' =
                 IF done /\ last.op = "sync_playlist_cache"
                 THEN update_playlist_tracks_with_timestamps(tracks, playlist_tracks, last.pl,
                          [i \in 1..Len(all) |-> <<all[i].uri, all[i].added_at>>])
                 ELSE playlist_tracks
    /\ UNCHANGED <<tracks, playlists, now, nops, config, access_token, runLocals, remoteVars,
                   exit_code, nruns, rlog>>

\* clear_playlist after its listing: the delete batches, of which batch
\* failAt fails (0: none)
ClearListed ==
    /\ pc = "list_done"
    /\ last.op = "clear_playlist"
    /\ \E failAt \in 0..NumBatches(last.data, DeleteBatch) :
        /\ remote_daily' =
              IF last.data = <<>> THEN remote_daily
              ELSE DeleteBatches(remote_daily, UrisOf(last.data), 1,
                      IF failAt = 0 THEN NumBatches(last.data, DeleteBatch) + 1 ELSE failAt)
        /\ last' = [last EXCEPT !.ok = (failAt = 0)]
        /\ pc' = IF failAt = 0 THEN "cleared" ELSE "clear_failed"
    /\ UNCHANGED <<dbVars, now, nops, config, access_token, runLocals, remote_cum,
                   exit_code, nruns, rlog>>

ListNext ==
    \/ ListPage
    \/ ClearListed

SpecList == ListInit /\ [][ListNext]_vars

\* the number of pages of a playlist of n items: at least one request is made
PagesOf(n) == IF n = 0 THEN 1 ELSE (n + PageLimit - 1) \div PageLimit

\* C32: Paginated listing terminates and is complete.  The page loop asks for
\* the offsets 0, 50, 100, ... in this order; it ends right after the first
\* page without a next-page signal, and has then collected every item with a
\* track exactly once and in remote order (what CollectPages gives in one
\* piece); when a page request fails, sync_playlist_cache leaves the cached
\* membership as it was.
C32_ListingComplete ==
    /\ \A k \in 1..Len(last.ids) : last.ids[k] = (k - 1) * PageLimit
    /\ pc = "list_page" => Len(last.ids) < PagesOf(Len(last.start_daily))
    /\ pc = "list_done"
         => /\ Len(last.ids) = PagesOf(Len(last.start_daily))
            /\ last.data = TrackItems(last.start_daily)
            /\ last.data = CollectPages(last.start_daily, 0)
    /\ pc = "list_failed" => playlist_tracks = last.pre_pt
    /\ (pc = "list_done" /\ last.op = "sync_playlist_cache")
         => Rows(playlist_tracks, last.pl)
               = {PlaylistTrackRow(last.pl, LongTid(i), Len(TrackItems(SubSeq(last.start_daily, 1, i))) - 1,
                                   last.start_daily[i].added_at) :
                     i \in {j \in 1..Len(last.start_daily) : last.start_daily[j].uri # NULL}}

\* a listing of three pages, the last one short and one item without a track,
\* was completed by sync_playlist_cache
C32_Witness ==
    /\ pc = "list_done"
    /\ last.op = "sync_playlist_cache"
    /\ Len(last.ids) = 3
    /\ Len(last.start_daily) = LongUris
    /\ Len(last.data) = LongUris - 1

(***************************************************************************)
(* SpecBatch: the batch loops of add_tracks_to_playlist,                   *)
(* remove_tracks_from_playlist and                                         *)
(* add_tracks_to_cumulative_playlist_batched, one iteration per step.      *)
(* `last` holds the loop's history: op = the method, data = the payloads   *)
(* of the requests made so far, ids = the numbers of the batches whose     *)
(* request failed; idx is the number of the next batch.                    *)
(***************************************************************************)
BatchSizes == {1, CumulativeBatch, CumulativeBatch + 1, AddBatch, LongUris}

\* a URI that is no track URI
MalformedUri == "spotify:album:1"

\* a list of n URIs, the one at index z (if any) malformed
BatchList(n, z) == [i \in 1..n |-> IF i = z THEN MalformedUri ELSE LongUri(i)]

BatchOps == {"add_tracks_to_playlist", "remove_tracks_from_playlist",
             "add_tracks_to_cumulative_playlist_batched"}

\* range(0, len(track_uris), size): the step each method uses
BatchSizeOf(op) ==
    IF op = "add_tracks_to_cumulative_playlist_batched" THEN CumulativeBatch
    ELSE IF op = "add_tracks_to_playlist" THEN AddBatch
    ELSE DeleteBatch

BatchInit ==
    \E n \in BatchSizes, z \in {0, 1, CumulativeBatch + 1}, op \in BatchOps :
        /\ tracks = <<>>
        /\ playlist_tracks = {}
        /\ playlists = <<>>
        /\ remote_daily = <<>>
        /\ remote_cum = IF op = "remove_tracks_from_playlist" THEN RemoteOf(n, 0) ELSE <<>>
        /\ songs = <<>>
        /\ idx = 1
        /\ track_uris = BatchList(n, z)
        /\ unique_tracks = <<>>
        /\ tunegenie_ids = <<>>
        /\ rlog = <<>>
        /\ config = [daily_playlist_id |-> DailyId, cumulative_playlist_id |-> CumId,
                     max_cumulative_tracks |-> 1]
        /\ now = MaxTime
        /\ last = [NoCall EXCEPT !.op = op, !.uris = track_uris, !.pre_cum = remote_cum]
        /\ nops = 0
        /\ access_token = "token"
        /\ pc = "batch"
        /\ exit_code = -1
        /\ nruns = 1

\* one iteration of "for i in range(0, len(track_uris), size)": the slice, the
\* validation (cumulative only), the request and what follows its failure
SendBatch ==
    /\ pc = "batch"
    /\ LET size == BatchSizeOf(last.op)
           cumulative == last.op = "add_tracks_to_cumulative_playlist_batched"
           batch == Batch(track_uris, size, idx)
           payload == IF cumulative THEN ValidUris(batch) ELSE batch
           lastOne == idx >= NumBatches(track_uris, size)
       IN IF cumulative /\ payload = <<>>
          THEN /\ idx' = idx + 1
               /\ pc' = IF lastOne THEN "batch_done" ELSE "batch"
               /\ UNCHANGED <<last, remoteVars>>
          ELSE \E ok \in BOOLEAN :
               /\ idx' = idx + 1
               /\ last' = [last EXCEPT !.data = Append(last.data, payload),
                                        !.ids = IF ok THEN last.ids ELSE Append(last.ids, idx),
                                        !.ok = ok]
               /\ pc' = IF ~ok /\ ~cumulative THEN "batch_failed"
                        ELSE IF lastOne THEN "batch_done" ELSE "batch"
               /\ remote_daily' =
                     IF ok /\ last.op = "add_tracks_to_playlist"
                     THEN RemoteAdd(remote_daily, payload, now) ELSE remote_daily
               /\ remote_cum' =
                     IF ok /\ cumulative THEN RemoteAdd(remote_cum, payload, now)
                     ELSE IF ok /\ last.op = "remove_tracks_from_playlist"
                     THEN RemoteDelete(remote_cum, payload)
                     ELSE remote_cum
    /\ UNCHANGED <<dbVars, now, nops, config, access_token, songs, track_uris, unique_tracks,
                   tunegenie_ids, exit_code, nruns, rlog>>

SpecBatch == BatchInit /\ [][SendBatch]_vars

\* the payloads of the requests made, one after the other
RECURSIVE Flatten(_)
Flatten(ss) == IF ss = <<>> THEN <<>> ELSE Head(ss) \o Flatten(Tail(ss))

\* the items of the input the loop has gone through
TakenSoFar == SubSeq(track_uris, 1, Min2((idx - 1) * BatchSizeOf(last.op), Len(track_uris)))

\* C33: Batch limits.  Every request that adds tracks to the daily playlist or
\* deletes tracks carries at most 100 items and every append request to the
\* cumulative playlist at most 50; no request is empty; the payloads of the
\* requests, in the order made, are the part of the input gone through so
\* far, in its order (for the cumulative playlist: its URIs that start with
\* "spotify:track:"), and the whole input when the loop has ended; and the
\* remote playlist is then the one add_tracks_to_playlist,
\* remove_tracks_from_playlist and add_tracks_to_cumulative_playlist_batched
\* give in one piece.
C33_BatchLimits ==
    LET cumulative == last.op = "add_tracks_to_cumulative_playlist_batched"
        fails == Range(last.ids)
    IN /\ \A r \in 1..Len(last.data) :
             /\ Len(last.data[r]) <= IF cumulative THEN 50 ELSE 100
             /\ last.data[r] # <<>>
       /\ Flatten(last.data) = IF cumulative THEN ValidUris(TakenSoFar) ELSE TakenSoFar
       /\ pc = "batch_done" => TakenSoFar = track_uris
       /\ (pc = "batch_done" /\ last.op = "add_tracks_to_playlist")
            => remote_daily = add_tracks_to_playlist(<<>>, track_uris, 0, now).remote
       /\ (pc = "batch_failed" /\ last.op = "add_tracks_to_playlist")
            => remote_daily = add_tracks_to_playlist(<<>>, track_uris, idx - 1, now).remote
       /\ (pc = "batch_done" /\ last.op = "remove_tracks_from_playlist")
            => remote_cum = remove_tracks_from_playlist(last.pre_cum, track_uris, 0).remote
       /\ (pc = "batch_failed" /\ last.op = "remove_tracks_from_playlist")
            => remote_cum = remove_tracks_from_playlist(last.pre_cum, track_uris, idx - 1).remote
       /\ (pc = "batch_done" /\ cumulative)
            => remote_cum = add_tracks_to_cumulative_playlist_batched(
                                <<>>, track_uris, fails, now).remote

\* 101 URIs, one of them malformed, went to the cumulative playlist in three
\* requests, of which the second failed
C33_Witness ==
    /\ pc = "batch_done"
    /\ last.op = "add_tracks_to_cumulative_playlist_batched"
    /\ Len(track_uris) = LongUris
    /\ Len(last.data) = 3
    /\ last.ids = <<2>>
    /\ Len(Flatten(last.data)) = LongUris - 1

\* the rows of rows whose track has one of the URIs of uris
RowsWithUri(tr, rows, uris) ==
    {r \in rows : /\ r.tunegenie_id \in DOMAIN tr
                  /\ tr[r.tunegenie_id].spotify_uri # NULL
                  /\ tr[r.tunegenie_id].spotify_uri \in Range(uris)}

\* C34: remove_tracks_from_playlist_cache(P, U) deletes the membership rows of
\* P whose track has a URI of U and no other row: afterwards
\* get_playlist_tracks(P) has no URI of U, the other rows of P and the rows
\* of the other playlists are the ones from before, and the track mappings
\* are unchanged.
C34_RemoveMembershipFrame ==
    last.op = "remove_tracks_from_playlist_cache"
      => /\ Rows(playlist_tracks, last.pl)
               = Rows(last.pre_pt, last.pl) \ RowsWithUri(last.pre_tracks, Rows(last.pre_pt, last.pl), last.uris)
         /\ get_playlist_tracks(tracks, playlist_tracks, last.pl) \cap Range(last.uris) = {}
         /\ \A Q \in PlaylistIds \ {last.pl} : Rows(playlist_tracks, Q) = Rows(last.pre_pt, Q)
         /\ playlist_tracks \subseteq last.pre_pt
         /\ tracks = last.pre_tracks

\* a call with one URI that deleted a row of P and kept another row of P
C34_Witness ==
    /\ last.op = "remove_tracks_from_playlist_cache"
    /\ Len(last.uris) = 1
    /\ Rows(playlist_tracks, last.pl) # {}
    /\ Cardinality(Rows(last.pre_pt, last.pl) \ Rows(playlist_tracks, last.pl)) = 1

(***************************************************************************)
(* SpecAppend: two processes call add_tracks_to_playlist_cache on the same *)
(* playlist of one database file.  Each call is a connection of its own:   *)
(* the SELECT of the maximum reads the committed table; the first INSERT   *)
(* opens the write transaction, which one connection holds at a time, and  *)
(* its rows are seen by the other connection after conn.commit().          *)
(* last.data[p] is the call of process p: where it is, its tunegenie_ids,  *)
(* the max_position it read, the number of commits it had seen then, its   *)
(* uncommitted table, and whether another commit came between its read and *)
(* its own commit.  playlist_tracks is the committed table.                *)
(***************************************************************************)
Procs == {1, 2}

AppendCall(ids) ==
    [pc |-> "select", ids |-> ids, max_position |-> -1, seen |-> 0, pending |-> {},
     stale |-> FALSE]

Commits == Cardinality({p \in Procs : last.data[p].pc = "done"})

AppendInit ==
    \E ids1 \in SeqsUpTo(Tids, MaxList), ids2 \in SeqsUpTo(Tids, MaxList), seeded \in BOOLEAN :
        /\ tracks = <<>>
        /\ playlist_tracks =
              IF seeded THEN add_tracks_to_playlist_cache({}, CumId, <<"t1">>, 0) ELSE {}
        /\ playlists = <<>>
        /\ remote_daily = <<>>
        /\ remote_cum = <<>>
        /\ songs = <<>>
        /\ idx = 1
        /\ track_uris = <<>>
        /\ unique_tracks = <<>>
        /\ tunegenie_ids = <<>>
        /\ rlog = <<>>
        /\ config = [daily_playlist_id |-> DailyId, cumulative_playlist_id |-> CumId,
                     max_cumulative_tracks |-> 1]
        /\ now = 0
        /\ last = [NoCall EXCEPT !.op = "add_tracks_to_playlist_cache", !.pl = CumId,
                                 !.pre_pt = playlist_tracks,
                                 !.data = <<AppendCall(ids1), AppendCall(ids2)>>]
        /\ nops = 0
        /\ access_token = "token"
        /\ pc = "appending"
        /\ exit_code = -1
        /\ nruns = 1

AppendFrame ==
    UNCHANGED <<tracks, playlists, now, nops, config, access_token, runLocals, remoteVars,
                exit_code, nruns, rlog, pc>>

\* SELECT COALESCE(MAX(position), -1): reads what is committed
AppendSelect(p) ==
    /\ last.data[p].pc = "select"
    /\ last' = [last EXCEPT !.data[p] =
                    [@ EXCEPT !.pc = "insert",
                              !.max_position = MaxPosition(playlist_tracks, last.pl),
                              !.seen = Commits]]
    /\ UNCHANGED playlist_tracks
    /\ AppendFrame

\* the INSERT OR IGNORE loop, in the write transaction of this connection
AppendInsert(p) ==
    /\ last.data[p].pc = "insert"
    /\ \A q \in Procs \ {p} : last.data[q].pc # "commit"
    /\ last' = [last EXCEPT !.data[p] =
                    [@ EXCEPT !.pc = "commit",
                              !.pending = AppendLoop(playlist_tracks, last.pl,
                                                     last.data[p].ids, 1,
                                                     last.data[p].max_position, now)]]
    /\ UNCHANGED playlist_tracks
    /\ AppendFrame

\* conn.commit()
AppendCommit(p) ==
    /\ last.data[p].pc = "commit"
    /\ playlist_tracks' = last.data[p].pending
    /\ last' = [last EXCEPT !.data[p] =
                    [@ EXCEPT !.pc = "done", !.stale = Commits > last.data[p].seen]]
    /\ AppendFrame

AppendNext == \E p \in Procs : AppendSelect(p) \/ AppendInsert(p) \/ AppendCommit(p)

SpecAppend == AppendInit /\ [][AppendNext]_vars

\* two rows of playlist P with the same position
SamePosition(pt, P) ==
    \E r1 \in Rows(pt, P), r2 \in Rows(pt, P) : r1 # r2 /\ r1.position = r2.position

\* the first id of the call of p is no row of the table the calls started from
FreshFirst(p) ==
    /\ last.data[p].ids # <<>>
    /\ ~HasRow(last.pre_pt, last.pl, last.data[p].ids[1])

\* C35: Unsupported concurrency is a real race.  The store keeps one row per
\* (playlist_id, tunegenie_id) at all times and nothing more: when the calls of
\* two processes on one playlist have both committed, one of them having read
\* the maximum position before the other committed, and they add different
\* ids whose first ones are new to the playlist, the table has two rows of
\* the playlist with the same position; and two rows with the same position
\* come from such an interleaving only.
C35_AppendRace ==
    /\ \A r1 \in playlist_tracks, r2 \in playlist_tracks :
           (r1.playlist_id = r2.playlist_id /\ r1.tunegenie_id = r2.tunegenie_id) => r1 = r2
    /\ ( /\ \A p \in Procs : last.data[p].pc = "done"
         /\ \E p \in Procs : last.data[p].stale
         /\ \A p \in Procs : FreshFirst(p)
         /\ Range(last.data[1].ids) \cap Range(last.data[2].ids) = {} )
       => SamePosition(playlist_tracks, last.pl)
    /\ SamePosition(playlist_tracks, last.pl) => \E p \in Procs : last.data[p].stale

\* both calls have committed and the playlist has two rows with one position
C35_Witness ==
    /\ \A p \in Procs : last.data[p].pc = "done"
    /\ \A p \in Procs : last.data[p].max_position = MaxPosition(last.pre_pt, last.pl)
    /\ SamePosition(playlist_tracks, last.pl)

\* the ids whose mapping has a URI
Resolved(tr) == {t \in DOMAIN tr : tr[t].spotify_uri # NULL}

\* C36: A resolved mapping is stable.  No step of a run, whatever the remote
\* answers, removes a mapping that has a URI, changes its URI or replaces it
\* by null; a URI a call of search_spotify_track returned is the URI of the
\* id's mapping ever after, and every later call for that id, in the same
\* run or a later one, returns it.
C36_ResolvedStable ==
    /\ [][\A t \in Resolved(tracks) :
              t \in DOMAIN tracks' /\ tracks'[t].spotify_uri = tracks[t].spotify_uri]_vars
    /\ [](\A i \in 1..Len(rlog) :
              rlog[i].ret # NULL
                => /\ rlog[i].tid \in Resolved(tracks)
                   /\ tracks[rlog[i].tid].spotify_uri = rlog[i].ret
                   /\ \A j \in (i + 1)..Len(rlog) :
                         rlog[j].tid = rlog[i].tid => rlog[j].ret = rlog[i].ret)

\* an id that a remote search resolved was asked for again, after a call for
\* another id had found nothing, and two ids are resolved
C36_Witness ==
    \E i, k, j \in 1..Len(rlog) :
        /\ i < k /\ k < j
        /\ rlog[i].outcome = "found"
        /\ rlog[k].tid # rlog[i].tid /\ rlog[k].outcome \in {"notfound", "error"}
        /\ rlog[j].tid = rlog[i].tid /\ rlog[j].ret = rlog[i].ret
        /\ Cardinality(Resolved(tracks)) >= 2

\* the request of fetch_tunegenie_songs has just failed
FetchFailed == last.op = "fetch_tunegenie_songs" /\ ~last.ok

\* C37: A failed source fetch is treated as an empty feed.  When the request
\* to the feed fails, fetch_tunegenie_songs returns the empty list and the
\* run ends with exit status 0; the fetch changes nothing, the remote daily
\* playlist is the one the run started with, and between the start of the
\* run and the fetch only initialize_cache writes, and it writes playlist
\* records and membership rows only.
C37_FailedFetchIsEmpty ==
    /\ [](FetchFailed
            => /\ songs = <<>>
               /\ last.n = 0
               /\ pc = "idle"
               /\ exit_code = 0
               /\ tracks = last.pre_tracks
               /\ playlist_tracks = last.pre_pt
               /\ remote_daily = last.start_daily
               /\ remote_daily = last.pre_daily
               /\ remote_cum = last.pre_cum)
    /\ [][(pc = "idle" \/ pc = "init_cache" \/ pc = "fetch")
            => (UNCHANGED <<tracks, remoteVars, rlog>>
                /\ (pc # "init_cache" => UNCHANGED <<playlist_tracks, playlists>>))]_vars

\* the fetch of the second run fails, with mappings and memberships cached
\* and tracks in the remote daily playlist
C37_Witness ==
    /\ FetchFailed
    /\ nruns = 2
    /\ tracks # <<>>
    /\ playlist_tracks # {}
    /\ remote_daily # <<>>

(***************************************************************************)
(* SpecMain: main() without --setup, from the configuration document to    *)
(* the call of SpotifyUpdater().run().  last.data is the "spotify" object  *)
(* of config.json, config the record get_spotify_config returned (the      *)
(* empty function before the call); reading a key the record does not have *)
(* raises KeyError, which nothing catches: the process ends with status 1. *)
(***************************************************************************)
\* the keys main() reads from spotify_config before it runs the updater
MainReadKeys == {"client_id", "client_secret", "refresh_token", "daily_playlist_id"}

\* the keys SpotifyUpdater reads from self.spotify_config
UpdaterReadKeys == {"client_id", "client_secret", "refresh_token", "daily_playlist_id",
                    "cumulative_playlist_id", "max_cumulative_tracks"}

\* the keys get_spotify_config reads from the "spotify" object and returns
ReturnedKeys == {"client_id", "client_secret", "refresh_token", "playlist_id"}

\* "YOUR_" in value
IsPlaceholder(v) == v \in {"YOUR_CLIENT_ID", "YOUR_CLIENT_SECRET", "YOUR_REFRESH_TOKEN",
                           "YOUR_PLAYLIST_ID"}

\* the record get_spotify_config builds from the "spotify" object doc
get_spotify_config(doc) == [k \in ReturnedKeys |-> doc[k]]

\* "spotify" objects that have every key the program reads, with and without
\* the key playlist_id
SpotifyDocuments ==
    {[k \in UpdaterReadKeys \cup extra |->
         CASE k = "client_id" -> id
           [] k = "client_secret" -> secret
           [] k = "refresh_token" -> token
           [] k = "daily_playlist_id" -> daily
           [] k = "playlist_id" -> daily
           [] k = "cumulative_playlist_id" -> cum
           [] OTHER -> 2] :
        id \in {"YOUR_CLIENT_ID", "id"}, secret \in {"YOUR_CLIENT_SECRET", "secret"},
        token \in {"YOUR_REFRESH_TOKEN", "refresh"}, daily \in {"YOUR_PLAYLIST_ID", DailyId},
        cum \in {NULL, CumId}, extra \in {{}, {"playlist_id"}}}

MainInit ==
    \E doc \in SpotifyDocuments :
        /\ tracks = <<>>
        /\ playlist_tracks = {}
        /\ playlists = <<>>
        /\ remote_daily = <<>>
        /\ remote_cum = <<>>
        /\ songs = <<>>
        /\ idx = 1
        /\ track_uris = <<>>
        /\ unique_tracks = <<>>
        /\ tunegenie_ids = <<>>
        /\ rlog = <<>>
        /\ config = <<>>
        /\ now = 0
        /\ last = [NoCall EXCEPT !.op = "main", !.data = doc]
        /\ nops = 0
        /\ access_token = NULL
        /\ pc = "get_spotify_config"
        /\ exit_code = -1
        /\ nruns = 0

MainFrame ==
    UNCHANGED <<dbVars, now, nops, access_token, runLocals, remoteVars, nruns, rlog>>

\* an uncaught KeyError
KeyError(key) ==
    /\ pc' = "KeyError"
    /\ exit_code' = 1
    /\ last' = [last EXCEPT !.outcome = key]

\* spotify_config = get_spotify_config()
MainGetSpotifyConfig ==
    /\ pc = "get_spotify_config"
    /\ IF ReturnedKeys \subseteq DOMAIN last.data
       THEN /\ config' = get_spotify_config(last.data)
            /\ pc' = "check_credentials"
            /\ UNCHANGED <<last, exit_code>>
       ELSE /\ KeyError(CHOOSE k \in ReturnedKeys : k \notin DOMAIN last.data)
            /\ UNCHANGED config
    /\ MainFrame

\* the checks of client_id, client_secret and refresh_token
MainCheckCredentials ==
    /\ pc = "check_credentials"
    /\ IF IsPlaceholder(config["client_id"]) \/ IsPlaceholder(config["client_secret"])
          \/ IsPlaceholder(config["refresh_token"])
       THEN Exit(1) /\ last' = [last EXCEPT !.outcome = "not_configured"]
       ELSE pc' = "check_daily" /\ UNCHANGED <<last, exit_code>>
    /\ UNCHANGED config
    /\ MainFrame

\* the check of daily_playlist_id, and SpotifyUpdater().run() after it
MainCheckDaily ==
    /\ pc = "check_daily"
    /\ IF "daily_playlist_id" \notin DOMAIN config
       THEN KeyError("daily_playlist_id")
       ELSE IF IsPlaceholder(config["daily_playlist_id"])
       THEN Exit(1) /\ last' = [last EXCEPT !.outcome = "not_configured"]
       ELSE pc' = "run" /\ UNCHANGED <<last, exit_code>>
    /\ UNCHANGED config
    /\ MainFrame

MainNext == MainGetSpotifyConfig \/ MainCheckCredentials \/ MainCheckDaily

SpecMain == MainInit /\ [][MainNext]_vars

\* C38 (as claimed): Configuration completeness.  Every key main() and
\* SpotifyUpdater read from the Spotify configuration is a key of the record
\* get_spotify_config returns, and with a configuration document that has
\* them all no step ends in a missing-key failure.
C38_ConfigComplete ==
    /\ pc # "KeyError"
    /\ config # <<>> => (MainReadKeys \cup UpdaterReadKeys) \subseteq DOMAIN config

(***************************************************************************)
(* SpecAlone: steps 4 and 5 of run() in spotify_tunegenie_updater.py, the  *)
(* script with one playlist and no cache.  remote_daily is the playlist,   *)
(* track_uris the list the run resolved, last.n the number of items the    *)
(* service puts in a page when the request names no limit.                 *)
(***************************************************************************)
\* page sizes of the service for a request without "limit"
ServerPageLimits == {20, DeleteBatch}

AloneSizes == {0, 1, 20, 21, DeleteBatch, LongUris}

\* clear_playlist of the script: one GET, one DELETE of the tracks it listed
standalone_clear_playlist(pl, limit, listok, delok) ==
    LET items == SubSeq(pl, 1, Min2(limit, Len(pl)))
    IN IF ~listok THEN [ok |-> FALSE, remote |-> pl]
       ELSE IF items = <<>> THEN [ok |-> TRUE, remote |-> pl]
       ELSE IF ~delok THEN [ok |-> FALSE, remote |-> pl]
       ELSE [ok |-> TRUE, remote |-> RemoteDelete(pl, UrisOf(TrackItems(items)))]

AloneInit ==
    \E n \in AloneSizes, limit \in ServerPageLimits, m \in {1, 2, LongUris}, z \in {0, 1} :
        /\ tracks = <<>>
        /\ playlist_tracks = {}
        /\ playlists = <<>>
        /\ remote_daily = ListedPlaylist(n, z)
        /\ remote_cum = <<>>
        /\ songs = <<>>
        /\ idx = 1
        /\ track_uris = [i \in 1..m |-> LongUri(i)]
        /\ unique_tracks = <<>>
        /\ tunegenie_ids = <<>>
        /\ rlog = <<>>
        /\ config = [daily_playlist_id |-> DailyId, cumulative_playlist_id |-> NULL,
                     max_cumulative_tracks |-> 1]
        /\ now = MaxTime
        /\ last = [NoCall EXCEPT !.n = limit, !.pre_daily = remote_daily,
                                 !.start_daily = remote_daily]
        /\ nops = 0
        /\ access_token = "token"
        /\ pc = "clear"
        /\ exit_code = -1
        /\ nruns = 1

AloneFrame ==
    UNCHANGED <<dbVars, now, nops, config, access_token, runLocals, remote_cum, nruns, rlog>>

\* step 4: clear_playlist, sys.exit(1) when it returns False
AloneClear ==
    /\ pc = "clear"
    /\ \E listok \in BOOLEAN, delok \in BOOLEAN :
        LET r == standalone_clear_playlist(remote_daily, last.n, listok, delok)
        IN /\ remote_daily' = r.remote
           /\ last' = [last EXCEPT !.op = "clear_playlist", !.ok = r.ok,
                                    !.pre_daily = remote_daily]
           /\ IF r.ok THEN pc' = "add" /\ exit_code' = exit_code
              ELSE pc' = "exited" /\ exit_code' = 1
    /\ AloneFrame

\* step 5: add_tracks_to_playlist in batches of 100, sys.exit(1) when it fails
AloneAdd ==
    /\ pc = "add"
    /\ \E failAt \in 0..NumBatches(track_uris, AddBatch) :
        LET r == add_tracks_to_playlist(remote_daily, track_uris, failAt, now)
        IN /\ remote_daily' = r.remote
           /\ last' = [last EXCEPT !.op = "add_tracks_to_playlist", !.ok = r.ok,
                                    !.pre_daily = remote_daily]
           /\ pc' = "exited"
           /\ exit_code' = IF r.ok THEN 0 ELSE 1
    /\ AloneFrame

AloneNext == AloneClear \/ AloneAdd

SpecAlone == AloneInit /\ [][AloneNext]_vars

\* C39 (as claimed): in the standalone script, after clear_playlist returned
\* True the remote playlist is empty, whatever its size was, and after the
\* add that follows the playlist is the list the run resolved.
C39_StandaloneClearEmpties ==
    /\ (last.op = "clear_playlist" /\ last.ok) => remote_daily = <<>>
    /\ (last.op = "add_tracks_to_playlist" /\ last.ok) => UrisOf(remote_daily) = track_uris

====
